---- MODULE Spec2Model ----
(***************************************************************************)
(* Order-fulfilment bridge (Shopify orders/paid webhook -> Maya eSIMs).    *)
(*                                                                         *)
(* The subsystems are modelled each with its own specification:            *)
(*   LockSpec : the order processing lock of services/shopify.js           *)
(*              (revision src/unnamed/part_006), driven by clients that    *)
(*              call tryAcquireOrderProcessingLock and                     *)
(*              releaseOrderProcessingLock on one order;                   *)
(*   Spec     : the orders/paid handler (src/unnamed/part_004 and          *)
(*              src/index.js) run by concurrent deliveries of one order;   *)
(*   LockFoundSpec: the same lock, found free or left held by a holder     *)
(*              that is gone, with or without a readable time;             *)
(*   ScanSpec : the passes of GET /cron/check-usage over one order;        *)
(*   PickSpec : the current-plan selection of the scan, run on one list    *)
(*              of plans;                                                  *)
(*   MatchSpec: the top-up target selection of the handler, run on the     *)
(*              eSIMs and plans the provider lists for one customer.       *)
(* Every await on the order-record store, the provisioning provider or the *)
(* mailer is one atomic step; the code between two awaits belongs to the   *)
(* step of the await that precedes it.                                     *)
(***************************************************************************)
EXTENDS Integers, Sequences, FiniteSets, TLC

\* ------------------------------------------------------------------------
\* Bounds of the model
\* ------------------------------------------------------------------------
\* number of fresh lock tokens crypto.randomUUID() hands out in one run
MaxTokens == 3
\* the clock stops after this many minutes
MaxNow == 30
\* minutes the clock advances in one Tick
TickMinutes == 10

\* LOCK_TTL_MS = 15 * 60 * 1000, in minutes (the clock of the model counts minutes)
LOCK_TTL_MIN == 15

\* ------------------------------------------------------------------------
\* Order-record store: the lock metafields of the order
\* ------------------------------------------------------------------------
VARIABLES
  now,                    \* Date.now(), minutes
  maya_processing,        \* metafield custom.maya_processing = "true"
  maya_processing_token,  \* metafield custom.maya_processing_token
  maya_processing_at,     \* metafield custom.maya_processing_at
  nextToken,              \* next value crypto.randomUUID() returns
  lpc,                    \* per client: position inside the lock call
  ltoken,                 \* per client: `token` of the running call
  lnowIso,                \* per client: `nowIso` of the acquire call
  lresult,                \* per client: what the last call returned
  holding,                \* per client: token of its confirmed acquisition
  heldSince,              \* per client: nowIso of its confirmed acquisition
  sawStale,               \* per client: the acquire call read a held, stale lock
  sawOther,               \* per client: another acquire call overlapped this one
  lwrote                  \* per client: the mutation of the running call was applied

lockVars == <<now, maya_processing, maya_processing_token, maya_processing_at,
              nextToken, lpc, ltoken, lnowIso, lresult, holding, heldSince,
              sawStale, sawOther, lwrote>>

VARIABLES
  order,                  \* req.body: [customer, line_items]
  maya_processed,         \* order metafield custom.maya_processed = "true"
  maya_iccid,             \* order metafield custom.maya_iccid
  maya_esims_json,        \* order metafield custom.maya_esims_json (ICCIDs of the list)
  maya_customer_id,       \* customer metafield custom.maya_customer_id
  mayaCustomers,          \* Maya: number of customers that exist
  mayaEsims,              \* Maya: eSIMs in creation order, the ICCID is the index
  h,                      \* per delivery, the locals of the handler:
                          \*   pc                  the await the handler is at
                          \*   i, q                line item (1-based) and unit
                          \*   shouldMarkProcessed
                          \*   mayaCustomerId
                          \*   best                best.iccid of the top-up target
                          \*   mayaResp            mayaResp.esim.iccid just created
                          \*   current             list read by appendEsimToOrderEsimsJson
                          \*   alertFor            which sendAdminAlertEmail is awaited
                          \*   resp                status the handler responded with
  log,                    \* per delivery, what it has done so far:
                          \*   event               what arrived: see Events
                          \*   flagRead            getOrderProcessedFlag: "ok" or "fault"
                          \*   wasProcessed        maya_processed as stored at that read
                          \*   mapped              customer mapping its read returned
                          \*   calls               kinds of calls it has made
                          \*   itemFailed          a line item failed
                          \*   createdBy           ICCIDs of the eSIMs it created
                          \*   recordedBy          of those, the ICCIDs the order gave
                          \*                       back when saveEsimToOrder ended
                          \*   unmatched           line items whose top-up had no target
                          \*   alerts              admin alerts handed to the mailer
                          \*   marked              its markOrderProcessed wrote the flag
                          \*   creates             per line item, its createMayaEsim calls
                          \*   topUps              per line item, its createMayaTopUp calls
                          \*   topUpOn             ICCIDs its createMayaTopUp calls named
                          \*   unitFails           its createMayaTopUp calls that failed
                          \*   topUpOk             line items a createMayaTopUp of its
                          \*                       succeeded for
                          \*   topUpMailed         line items it called sendTopUpEmail for
                          \*   saveTried           ICCIDs it called saveEsimToOrder for
                          \*   esimMails           its sendEsimEmail calls
                          \*   mailFailed          a sendEsimEmail of its failed
                          \*   noPlan              line items whose variant has no plan id
                          \*   unresolved          line items whose variant lookup threw
                          \*                       or gave no plan id
                          \*   matched             per line item, the ICCID chosen for its
                          \*                       top-up
  faults,                 \* faults so far of store and provider calls and of
                          \* the buyer's eSIM e-mail (the other e-mails fail
                          \* freely)
  createdFor,             \* per line item: eSIMs created for it by all deliveries
  toppedFor               \* per line item: top-ups created for it by all deliveries

handlerVars == <<order, maya_processed, maya_iccid, maya_esims_json, maya_customer_id,
                 mayaCustomers, mayaEsims, h, log, faults, createdFor, toppedFor>>

\* ------------------------------------------------------------------------
\* Usage scan (GET /cron/check-usage): state
\* ------------------------------------------------------------------------
VARIABLES
  scan_email,             \* the order has a buyer e-mail (getOrdersWithEsims)
  threshold,              \* USAGE_ALERT_THRESHOLD_PERCENT
  plansOf,                \* Maya: per ICCID, what getMayaEsimPlansByIccid returns
  usage_alerts_sent,      \* order metafield custom.usage_alerts_sent (set of keys)
  s,                      \* per pass, the locals of the cron handler:
                          \*   pc        the await the pass is at
                          \*   a         the e of `for (const e of esims)`
                          \*   flagSent  flag.sent read by markUsageAlertSent
                          \*   current   list read by markUsageAlertSent
                          \*   resp      status the pass responded with
                          \*   count     count in the body of the response
                          \*   error     the body of the response has an error
  slog,                   \* per pass, what it has done so far:
                          \*   sentFor   ICCIDs whose alert the mailer accepted
                          \*   triedFor  ICCIDs for which sendUsageAlertEmail ran
                          \*   markedFor ICCIDs whose key it wrote
                          \*   clean     no call of the pass has failed
                          \*   alone     no other pass ran while it ran
                          \*   secret    CRON_SECRET when it was triggered
                          \*   token     the token of its request
                          \*   orders    outcome of its getOrdersWithEsims
                          \*   email     getOrdersWithEsims gave it an e-mail address
                          \*   looked    ICCIDs it called getMayaEsimDetailsByIccid for
                          \*   failedAt  ICCIDs of which a lookup failed or gave no eSIM
                          \*   checked   ICCIDs it went on to the alert flag with
  alertsSent,             \* per ICCID: alerts the mailer accepted, all passes
  sfaults                 \* faults injected into the passes so far

scanVars == <<scan_email, threshold, plansOf, usage_alerts_sent, s, slog,
              alertsSent, sfaults>>

VARIABLES
  m_esims,                \* customer.esims as getMayaCustomerDetails lists them
  m_mayaPlanId,           \* the plan-type id of the top-up variant
  m_best,                 \* best after the loops of the last run of the matcher
  m_runs                  \* runs of the matcher on this customer so far

matchVars == <<m_esims, m_mayaPlanId, m_best, m_runs>>

VARIABLES
  c_plans,                \* the plans of an eSIM as getMayaEsimPlansByIccid lists them
  c_current,              \* what pickCurrentPlan returned for them
  c_runs                  \* calls of pickCurrentPlan on them so far

pickVars == <<c_plans, c_current, c_runs>>

vars == <<lockVars, handlerVars, scanVars, matchVars, pickVars>>

Clients == {"c1", "c2"}

\* a metafield that is absent or written as ""
NoToken == 0
\* maya_processing_at absent
NoTime == -1

\* a maya_processing_at that Date.parse does not understand
BadTime == -2

\* a token written by a holder that is none of the clients
ForeignToken == -1

Tokens == 1..MaxTokens

\* outcomes of one call to the store (shopifyGraphql):
\*   ok         the call succeeds
\*   fault      !resp.ok or json.errors or a transport error: shopifyGraphql throws
\*   userErrors metafieldsSet answers 200 with userErrors: nothing is written
ReadOutcomes == {"ok", "fault"}
WriteOutcomes == {"ok", "fault", "userErrors"}

\* ------------------------------------------------------------------------
\* Pure functions of the lock
\* ------------------------------------------------------------------------
\* a lock without a readable time counts as held
isStaleByAgeOnly(isoDate) ==
  IF isoDate = NoTime \/ isoDate = BadTime THEN FALSE
  ELSE now - isoDate > LOCK_TTL_MIN

isStale(isoDate) ==
  IF isoDate = NoTime THEN TRUE
  ELSE IF isoDate = BadTime THEN TRUE
  ELSE now - isoDate > LOCK_TTL_MIN

getOrderProcessingLock ==
  [processing |-> maya_processing,
   processingAt |-> maya_processing_at,
   processingToken |-> maya_processing_token,
   stale |-> IF maya_processing THEN isStale(maya_processing_at) ELSE FALSE]

\* tryAcquire if it never refused
AcquireRefusesNever(before) == FALSE

\* tryAcquire, after the first read: refuse or go on to write
AcquireRefuses(before) == before.processing /\ ~before.stale

\* tryAcquire, after the re-read
weOwnIt(after, token) ==
  after.processing = TRUE /\ after.processingToken = token

\* release, after its read: "not_locked", "token_mismatch" or go on to write
ReleaseDecisionNoTokenCheck(processing, currentToken, token) ==
  IF ~processing THEN "not_locked" ELSE "write"

ReleaseDecision(processing, currentToken, token) ==
  IF ~processing THEN "not_locked"
  ELSE IF currentToken # token THEN "token_mismatch"
  ELSE "write"

\* ------------------------------------------------------------------------
\* Lock clients
\* ------------------------------------------------------------------------
LockInit ==
  /\ now = 0
  /\ maya_processing = FALSE
  /\ maya_processing_token = NoToken
  /\ maya_processing_at = NoTime
  /\ nextToken = 1
  /\ lpc = [c \in Clients |-> "idle"]
  /\ ltoken = [c \in Clients |-> NoToken]
  /\ lnowIso = [c \in Clients |-> NoTime]
  /\ lresult = [c \in Clients |-> "none"]
  /\ holding = [c \in Clients |-> NoToken]
  /\ heldSince = [c \in Clients |-> NoTime]
  /\ sawStale = [c \in Clients |-> FALSE]
  /\ sawOther = [c \in Clients |-> FALSE]
  /\ lwrote = [c \in Clients |-> FALSE]

InAcquire(c) == lpc[c] \in {"acq_write", "acq_verify"}

\* the running acquire calls of the other clients now overlap a call of c
MarkOverlap(c) ==
  [x \in Clients |-> IF x # c /\ InAcquire(x) THEN TRUE ELSE sawOther[x]]

\* Date.now() advances
Tick ==
  /\ UNCHANGED <<handlerVars, scanVars, matchVars, pickVars>>
  /\ now + TickMinutes <= MaxNow
  /\ now' = now + TickMinutes
  /\ UNCHANGED <<maya_processing, maya_processing_token, maya_processing_at,
                 nextToken, lpc, ltoken, lnowIso, lresult, holding, heldSince,
                 sawStale, sawOther, lwrote>>

\* tryAcquireOrderProcessingLock: `before = await getOrderProcessingLock`, the
\* locked test, and the token and nowIso drawn before the write is awaited
TryAcquireRead(c) ==
  /\ UNCHANGED <<handlerVars, scanVars, matchVars, pickVars>>
  /\ lpc[c] = "idle"
  /\ holding[c] = NoToken
  /\ nextToken <= MaxTokens
  /\ \E o \in ReadOutcomes :
       IF o = "fault"
       THEN /\ lresult' = [lresult EXCEPT ![c] = "threw"]
            /\ UNCHANGED <<lpc, ltoken, lnowIso, nextToken, sawStale, sawOther>>
       ELSE LET before == getOrderProcessingLock IN
            IF AcquireRefuses(before)
            THEN /\ lresult' = [lresult EXCEPT ![c] = "locked"]
                 /\ UNCHANGED <<lpc, ltoken, lnowIso, nextToken, sawStale, sawOther>>
            ELSE /\ lpc' = [lpc EXCEPT ![c] = "acq_write"]
                 /\ ltoken' = [ltoken EXCEPT ![c] = nextToken]
                 /\ nextToken' = nextToken + 1
                 /\ lnowIso' = [lnowIso EXCEPT ![c] = now]
                 /\ lresult' = [lresult EXCEPT ![c] = "none"]
                 /\ sawStale' = [sawStale EXCEPT ![c] = before.processing /\ before.stale]
                 /\ sawOther' = [MarkOverlap(c) EXCEPT
                                   ![c] = \E x \in Clients \ {c} : InAcquire(x)]
  /\ lwrote' = [lwrote EXCEPT ![c] = FALSE]
  /\ UNCHANGED <<now, maya_processing, maya_processing_token, maya_processing_at,
                 holding, heldSince>>

\* tryAcquireOrderProcessingLock: `await shopifyGraphql(mutation, variables)`;
\* userErrors of the mutation are not looked at
TryAcquireWrite(c) ==
  /\ UNCHANGED <<handlerVars, scanVars, matchVars, pickVars>>
  /\ lpc[c] = "acq_write"
  /\ \E o \in WriteOutcomes :
       /\ IF o = "ok"
          THEN /\ maya_processing' = TRUE
               /\ maya_processing_token' = ltoken[c]
               /\ maya_processing_at' = lnowIso[c]
          ELSE UNCHANGED <<maya_processing, maya_processing_token, maya_processing_at>>
       /\ IF o = "fault"
          THEN /\ lpc' = [lpc EXCEPT ![c] = "idle"]
               /\ lresult' = [lresult EXCEPT ![c] = "threw"]
          ELSE /\ lpc' = [lpc EXCEPT ![c] = "acq_verify"]
               /\ UNCHANGED lresult
       /\ lwrote' = [lwrote EXCEPT ![c] = (o = "ok")]
  /\ UNCHANGED <<now, nextToken, ltoken, lnowIso, holding, heldSince, sawStale, sawOther>>

\* tryAcquireOrderProcessingLock: `after = await getOrderProcessingLock`, weOwnIt
TryAcquireVerify(c) ==
  /\ UNCHANGED <<handlerVars, scanVars, matchVars, pickVars>>
  /\ lpc[c] = "acq_verify"
  /\ \E o \in ReadOutcomes :
       IF o = "fault"
       THEN /\ lresult' = [lresult EXCEPT ![c] = "threw"]
            /\ UNCHANGED <<holding, heldSince>>
       ELSE IF weOwnIt(getOrderProcessingLock, ltoken[c])
            THEN /\ lresult' = [lresult EXCEPT ![c] = "acquired"]
                 /\ holding' = [holding EXCEPT ![c] = ltoken[c]]
                 /\ heldSince' = [heldSince EXCEPT ![c] = lnowIso[c]]
            ELSE /\ lresult' = [lresult EXCEPT ![c] = "lost_race"]
                 /\ UNCHANGED <<holding, heldSince>>
  /\ lpc' = [lpc EXCEPT ![c] = "idle"]
  /\ UNCHANGED <<now, maya_processing, maya_processing_token, maya_processing_at,
                 nextToken, ltoken, lnowIso, sawStale, sawOther, lwrote>>

\* releaseOrderProcessingLock(orderId, token), called by the client with the
\* token of its acquisition: the read and the two tests
ReleaseRead(c) ==
  /\ UNCHANGED <<handlerVars, scanVars, matchVars, pickVars>>
  /\ lpc[c] = "idle"
  /\ holding[c] # NoToken
  /\ \E o \in ReadOutcomes :
       IF o = "fault"
       THEN /\ lresult' = [lresult EXCEPT ![c] = "threw"]
            /\ holding' = [holding EXCEPT ![c] = NoToken]
            /\ UNCHANGED <<lpc, ltoken>>
       ELSE LET d == ReleaseDecision(maya_processing, maya_processing_token, holding[c]) IN
            IF d = "write"
            THEN /\ lpc' = [lpc EXCEPT ![c] = "rel_write"]
                 /\ ltoken' = [ltoken EXCEPT ![c] = holding[c]]
                 /\ lresult' = [lresult EXCEPT ![c] = "none"]
                 /\ UNCHANGED holding
            ELSE /\ lresult' = [lresult EXCEPT ![c] = d]
                 /\ holding' = [holding EXCEPT ![c] = NoToken]
                 /\ UNCHANGED <<lpc, ltoken>>
  /\ lwrote' = [lwrote EXCEPT ![c] = FALSE]
  /\ UNCHANGED <<now, maya_processing, maya_processing_token, maya_processing_at,
                 nextToken, lnowIso, heldSince, sawStale, sawOther>>

\* releaseOrderProcessingLock: the mutation that writes maya_processing="false"
\* and maya_processing_token=""; maya_processing_at is left as it is and
\* userErrors of the mutation are not looked at
ReleaseWrite(c) ==
  /\ UNCHANGED <<handlerVars, scanVars, matchVars, pickVars>>
  /\ lpc[c] = "rel_write"
  /\ \E o \in WriteOutcomes :
       /\ IF o = "ok"
          THEN /\ maya_processing' = FALSE
               /\ maya_processing_token' = NoToken
          ELSE UNCHANGED <<maya_processing, maya_processing_token>>
       /\ lresult' = [lresult EXCEPT ![c] = IF o = "fault" THEN "threw" ELSE "released"]
       /\ lwrote' = [lwrote EXCEPT ![c] = (o = "ok")]
  /\ lpc' = [lpc EXCEPT ![c] = "idle"]
  /\ holding' = [holding EXCEPT ![c] = NoToken]
  /\ UNCHANGED <<now, maya_processing_at, nextToken, ltoken, lnowIso, heldSince,
                 sawStale, sawOther>>

LockNext ==
  \/ Tick
  \/ \E c \in Clients : TryAcquireRead(c)
  \/ \E c \in Clients : TryAcquireWrite(c)
  \/ \E c \in Clients : TryAcquireVerify(c)
  \/ \E c \in Clients : ReleaseRead(c)
  \/ \E c \in Clients : ReleaseWrite(c)


\* ------------------------------------------------------------------------
\* The orders/paid handler: bounds and inputs
\* ------------------------------------------------------------------------
\* line items of the order
MaxItems == 2
\* quantity of a line item
MaxQty == 2
\* faults (throwing or failing calls) injected in one run
MaxFaults == 1
\* the units an order carries over all its line items
MaxUnits == 2


\* deliveries of the one order: the first and a retry or concurrent duplicate
Deliveries == {"d1", "d2"}

NoCustomer == 0
NoIccid == 0

\* custom.maya_plan_id / custom.type_de_produit of the variants of the shop
Variants == {"esimA", "rechargeA", "rechargeB", "noplan"}

getVariantConfig(variantId) ==
  CASE variantId = "esimA"     -> [mayaPlanId |-> "planA", productType |-> "esim"]
    [] variantId = "rechargeA" -> [mayaPlanId |-> "planA", productType |-> "recharge"]
    [] variantId = "rechargeB" -> [mayaPlanId |-> "planB", productType |-> "recharge"]
    [] OTHER                   -> [mayaPlanId |-> "null", productType |-> "null"]

RECURSIVE Units(_, _)
Units(items, k) == IF k = 0 THEN 0 ELSE items[k].quantity + Units(items, k - 1)

LineItems ==
  {items \in UNION {[1..n -> [variant_id : Variants, quantity : 1..MaxQty]] :
                      n \in 1..MaxItems} :
     Units(items, Len(items)) <= MaxUnits}

\* the orders delivered: with a Shopify customer or a guest checkout
Orders == [customer : BOOLEAN, line_items : LineItems]

\* outcomes of a call to Maya or to a store function that throws on userErrors
CallOutcomes == {"ok", "fault"}
\* outcomes of resend.emails.send: delivered, {error} returned, or an exception
MailOutcomes == {"ok", "error", "throw"}

Items == order.line_items

qty(d) == Items[h[d].i].quantity

\* ------------------------------------------------------------------------
\* Top-up target selection (the loop over candidateEsims and their plans)
\* ------------------------------------------------------------------------
\* Number(x) / Date.parse(x) that is not finite (undefined, NaN, unparseable)
NotFinite == -999

IsFinite(x) == x # NotFinite

\* Number.POSITIVE_INFINITY: above every finite value of the model
POSITIVE_INFINITY == 1000000000

\* spellings of state and service_status that the provider may return
StatusSpellings ==
  {"released", "active", "", "Terminated", "terminated", "cancelled", "CANCELED"}

\* String(x || "").toLowerCase() on those spellings
toLowerCase(x) ==
  CASE x = "Terminated" -> "terminated"
    [] x = "CANCELED" -> "canceled"
    [] OTHER -> x

\* x.includes("terminated") || x.includes("cancel") on lower-case spellings
includesEnded(x) == x \in {"terminated", "cancelled", "canceled"}

\* candidateEsims.filter: state / service_status terminated or cancelled
isCandidateEsim(e) ==
  /\ ~includesEnded(toLowerCase(e.state))
  /\ ~includesEnded(toLowerCase(e.service_status))

candidateEsims(esims) == SelectSeq(esims, isCandidateEsim)

\* spellings of a plan-type id ("" is a plan without plan_type.id)
IdSpellings == {"planA", "PLANA", " PLANA ", "planB", ""}

\* String(x || "").trim().toLowerCase()
normId(x) ==
  CASE x = "planA" -> "plana"
    [] x = "PLANA" -> "plana"
    [] x = " PLANA " -> "plana"
    [] x = "planB" -> "planb"
    [] OTHER -> x

\* Number.isFinite(toInt_(v)) ? toInt_(v) : Number.POSITIVE_INFINITY
toInt_(v) == IF IsFinite(v) THEN v ELSE POSITIVE_INFINITY

\* Date.parse(s), or +Infinity when it does not parse
timeValue_(str) == IF IsFinite(str) THEN str ELSE POSITIVE_INFINITY

\* let best = null
NoBest ==
  [iccid |-> NoIccid, planId |-> 0, planTypeId |-> "", bytesRemaining |-> 0,
   activated |-> FALSE, startTime |-> 0]

\* the comparison chain that ignores activation
ReplacesNoActivation(candidate, b) ==
  IF candidate.bytesRemaining < b.bytesRemaining THEN TRUE
  ELSE IF candidate.bytesRemaining > b.bytesRemaining THEN FALSE
  ELSE timeValue_(candidate.startTime) < timeValue_(b.startTime)

\* the comparison chain of the loop: does candidate replace best
Replaces(candidate, b) ==
  IF candidate.bytesRemaining < b.bytesRemaining THEN TRUE
  ELSE IF candidate.bytesRemaining > b.bytesRemaining THEN FALSE
  ELSE IF candidate.activated /\ ~b.activated THEN TRUE
  ELSE IF ~candidate.activated /\ b.activated THEN FALSE
  ELSE timeValue_(candidate.startTime) < timeValue_(b.startTime)

\* const candidate = { iccid, planId, planTypeId, bytesRemaining, ... }
Candidate(e, p) ==
  [iccid |-> e.iccid, planId |-> p.id, planTypeId |-> p.planTypeId,
   bytesRemaining |-> toInt_(p.data_bytes_remaining),
   activated |-> p.activated, startTime |-> p.start_time]

\* the plan-type test that compares the raw spellings
planMatchesExactly(p, mayaPlanId) == p.planTypeId # "" /\ p.planTypeId = mayaPlanId

\* if (!planTypeId) continue; if (normId(planTypeId) !== normId(mayaPlanId)) continue
planMatches(p, mayaPlanId) ==
  p.planTypeId # "" /\ normId(p.planTypeId) = normId(mayaPlanId)

RECURSIVE SelectFromPlans(_, _, _, _)
\* for (const p of plans): k is the next plan of e, b the best so far
SelectFromPlans(e, k, b, mayaPlanId) ==
  IF k > Len(e.plans) THEN b
  ELSE LET p == e.plans[k]
           candidate == Candidate(e, p)
       IN IF ~planMatches(p, mayaPlanId)
          THEN SelectFromPlans(e, k + 1, b, mayaPlanId)
          ELSE IF b = NoBest \/ Replaces(candidate, b)
               THEN SelectFromPlans(e, k + 1, candidate, mayaPlanId)
               ELSE SelectFromPlans(e, k + 1, b, mayaPlanId)

RECURSIVE SelectFrom(_, _, _, _)
\* for (const e of candidateEsims): k is the next eSIM, b the best so far
SelectFrom(esims, k, b, mayaPlanId) ==
  IF k > Len(esims) THEN b
  ELSE SelectFrom(esims, k + 1,
                  SelectFromPlans(esims[k], 1, b, mayaPlanId), mayaPlanId)

\* the matcher: best over the plans of the candidate eSIMs, or NoBest
pickBest(esims, mayaPlanId) ==
  SelectFrom(candidateEsims(esims), 1, NoBest, mayaPlanId)

\* getMayaCustomerDetails(c).customer.esims, then the matcher; the ICCID of
\* the chosen eSIM, or NoIccid (!best?.iccid)
selectTarget(customerId, mayaPlanId) ==
  LET mine(e) == e.customer = customerId
  IN pickBest(SelectSeq(mayaEsims, mine), mayaPlanId).iccid

\* what createMayaEsim adds to the customer: a full plan, not yet activated
NewEsim(customerId, planTypeId, iccid) ==
  [customer |-> customerId, iccid |-> iccid, state |-> "released",
   service_status |-> "active",
   plans |-> <<[id |-> 1, planTypeId |-> planTypeId, data_bytes_remaining |-> 2,
                activated |-> FALSE, start_time |-> iccid]>>]

\* the eSIM a returning customer already owns: plan A, in use
OldEsim ==
  [customer |-> 1, iccid |-> 1, state |-> "active", service_status |-> "active",
   plans |-> <<[id |-> 1, planTypeId |-> "planA", data_bytes_remaining |-> 1,
                activated |-> TRUE, start_time |-> 0]>>]

\* the matcher studied on its own is not running
MatchIdle ==
  /\ m_esims = << >>
  /\ m_mayaPlanId = "planA"
  /\ m_best = NoBest
  /\ m_runs = 0

\* pickCurrentPlan has not been called
PickIdle ==
  /\ c_plans = << >>
  /\ c_current = [quota |-> NotFinite, remaining |-> 0, activated |-> FALSE,
                  net |-> "none", start |-> 0]
  /\ c_runs = 0

\* ------------------------------------------------------------------------
\* Usage scan: bounds, inputs and the computation of the pass
\* ------------------------------------------------------------------------
\* eSIMs recorded on the order that is scanned
MaxAssets == 2
\* faults injected into the scan passes of one run
MaxScanFaults == 1

Passes == {"p1", "p2"}

Assets == 1..MaxAssets

Quotas == {NotFinite, 0, 8, 1000000}

Remainings == {0, 2, 3, 250000}

Thresholds == {70, 75}

NetStatuses == {"ACTIVE", "NOT_ACTIVE"}

\* a plan of an eSIM as Maya returns it; activated: date_activated is set and
\* is not the null date
ScanPlans ==
  [quota : Quotas, remaining : Remainings, activated : BOOLEAN,
   net : NetStatuses, start : {1}]

\* a plan used up, active on the network
SpentPlan ==
  [quota |-> 8, remaining |-> 0, activated |-> TRUE, net |-> "ACTIVE", start |-> 1]

planIsActivated(p) == p.activated

planIsActiveNet(p) == p.net \in {"ACTIVE", "ENABLED"}

planHasRemaining(p) == p.remaining > 0

\* arr.filter(...) of withRemaining left out
withRemainingAll(arr) == arr

withRemaining(arr) == SelectSeq(arr, planHasRemaining)

planIsActivatedAndNet(p) == planIsActivated(p) /\ planIsActiveNet(p)

\* [...pool].sort((a, b) => tb - ta)[0]: the first plan with the newest start
newestFirst(pool) ==
  LET top == CHOOSE t \in {pool[k].start : k \in 1..Len(pool)} :
               \A k \in 1..Len(pool) : pool[k].start <= t
      first == CHOOSE k \in 1..Len(pool) :
                 /\ pool[k].start = top
                 /\ \A j \in 1..(k - 1) : pool[j].start # top
  IN pool[first]

\* the null that pickCurrentPlan returns
NoPlan == [quota |-> NotFinite, remaining |-> 0, activated |-> FALSE,
           net |-> "none", start |-> 0]

\* pickCurrentPlan: the first pool with a plan in it, then the newest start
pickCurrentPlan(plans) ==
  IF plans = << >> THEN NoPlan ELSE
  LET pool1 == withRemaining(SelectSeq(plans, planIsActivatedAndNet))
      pool2 == withRemaining(SelectSeq(plans, planIsActivated))
      pool3 == withRemaining(plans)
      pool == IF pool1 # << >> THEN pool1
              ELSE IF pool2 # << >> THEN pool2
              ELSE IF pool3 # << >> THEN pool3
              ELSE plans
  IN newestFirst(pool)

\* the percentage cut down to a whole number instead of rounded
percentUsedTruncated(totalBytes, remainingBytes) ==
  (100 * (totalBytes - remainingBytes)) \div totalBytes

\* Math.round((usedBytes / totalBytes) * 100) for totalBytes > 0
percentUsed(totalBytes, remainingBytes) ==
  (200 * (totalBytes - remainingBytes) + totalBytes) \div (2 * totalBytes)

\* the "t|i" of usage_alert_${t}_${i}
usageAlertKey(t, iccid) == <<t, iccid>>

\* the pass between the plans of an ICCID and the read of its alert flag:
\* "check" when the alert is due, "skip" for `continue`
usageDecision(plans) ==
  IF plans = << >> THEN "skip"
  ELSE LET activePlan == pickCurrentPlan(plans)
           totalBytes == activePlan.quota
           remainingBytes == activePlan.remaining
       IN IF ~planIsActivated(activePlan) \/ ~planIsActiveNet(activePlan) THEN "skip"
          ELSE IF ~IsFinite(totalBytes) \/ totalBytes <= 0 THEN "skip"
          ELSE IF percentUsed(totalBytes, remainingBytes) >= threshold THEN "check"
          ELSE "skip"

\* no pass has been triggered
\* a response whose body carries no count
NoCount == -1

\* orders.length: the scan of the model enumerates one order
OrdersFound == 1

ScanIdle ==
  /\ s = [p \in Passes |->
            [pc |-> "idle", a |-> 1, flagSent |-> FALSE, current |-> {}, resp |-> 0,
             count |-> NoCount, error |-> FALSE]]
  /\ slog = [p \in Passes |->
               [sentFor |-> {}, triedFor |-> {}, markedFor |-> {}, clean |-> TRUE,
                alone |-> TRUE, secret |-> "", token |-> "", orders |-> "none",
                email |-> FALSE, looked |-> {}, failedAt |-> {}, checked |-> {}]]
  /\ alertsSent = [a \in Assets |-> 0]
  /\ sfaults = 0
  /\ usage_alerts_sent = {}

\* the scanner left alone: nothing to scan
ScanQuiet ==
  /\ ScanIdle
  /\ scan_email = TRUE
  /\ threshold = 75
  /\ plansOf = [a \in Assets |-> << >>]

\* ------------------------------------------------------------------------
\* Order record: which ICCIDs the order gives back (getOrdersWithEsims)
\* ------------------------------------------------------------------------
\* finalEsims: the JSON list when it has entries, else the single field
finalEsims ==
  IF maya_esims_json # {} THEN maya_esims_json
  ELSE IF maya_iccid # NoIccid THEN {maya_iccid} ELSE {}

\* ------------------------------------------------------------------------
\* Handler
\* ------------------------------------------------------------------------
HandlerIdle ==
  /\ maya_processed = FALSE
  /\ maya_iccid = NoIccid
  /\ maya_esims_json = {}
  /\ h = [d \in Deliveries |->
            [pc |-> "idle", i |-> 1, q |-> 0, shouldMarkProcessed |-> TRUE,
             mayaCustomerId |-> NoCustomer, best |-> NoIccid, mayaResp |-> NoIccid,
             current |-> {}, alertFor |-> "none", resp |-> 0]]
  /\ log = [d \in Deliveries |->
              [event |-> "none", flagRead |-> "none", wasProcessed |-> FALSE, mapped |-> NoCustomer,
               calls |-> {},
               itemFailed |-> FALSE, createdBy |-> {}, recordedBy |-> {},
               unmatched |-> {}, alerts |-> 0, marked |-> FALSE,
               creates |-> [k \in 1..MaxItems |-> 0],
               topUps |-> [k \in 1..MaxItems |-> 0],
               topUpOn |-> {}, unitFails |-> 0, saveTried |-> {},
               topUpOk |-> {}, topUpMailed |-> {},
               esimMails |-> 0, mailFailed |-> FALSE,
               noPlan |-> {}, unresolved |-> {},
               matched |-> [k \in 1..MaxItems |-> NoIccid]]]
  /\ faults = 0
  /\ createdFor = [k \in 1..MaxItems |-> 0]
  /\ toppedFor = [k \in 1..MaxItems |-> 0]

\* the order arrives; the buyer is a guest, a new Shopify customer, or a
\* returning one whose Maya customer (id 1) is stored and owns one eSIM
Init ==
  /\ LockInit
  /\ ScanQuiet
  /\ MatchIdle
  /\ PickIdle
  /\ HandlerIdle
  /\ order \in Orders
  /\ \/ /\ maya_customer_id = NoCustomer
        /\ mayaCustomers = 0
        /\ mayaEsims = << >>
     \/ /\ order.customer
        /\ maya_customer_id = 1
        /\ mayaCustomers = 1
        /\ mayaEsims = <<OldEsim>>


\* a call may fail only while the run has faults left to inject
Allowed(o) == o = "ok" \/ faults < MaxFaults

Count(o) == IF o = "ok" THEN faults ELSE faults + 1

\* the handler if it marked the order whatever shouldMarkProcessed says
AfterLoopAlwaysMark(should) == "mark"

\* after the loop over the line items: markOrderProcessed or the response
AfterLoop(should) == IF should THEN "mark" ELSE "done"

ItemOrEnd(nextI, should) ==
  IF nextI > Len(Items) THEN AfterLoop(should) ELSE "item"

\* res.status(200).send("OK") once the handler is done
RespOf(pc2, old) == IF pc2 = "done" THEN 200 ELSE old

\* the handler if the end of an item ended the order
NextItemAborts(d, should) ==
  [h[d] EXCEPT !.pc = "done", !.i = h[d].i + 1, !.q = 0,
               !.shouldMarkProcessed = should, !.resp = 200]

\* `continue` / end of the body of the loop over the line items
NextItem(d, should) ==
  [h[d] EXCEPT !.pc = ItemOrEnd(h[d].i + 1, should),
               !.i = h[d].i + 1, !.q = 0,
               !.shouldMarkProcessed = should,
               !.best = NoIccid, !.mayaResp = NoIccid, !.current = {},
               !.alertFor = "none",
               !.resp = RespOf(ItemOrEnd(h[d].i + 1, should), h[d].resp)]

\* the handler if an item were abandoned after its first unit
NextEsimUnitStops(d, should) == NextItem(d, should)

\* end of the body of `for (let q = 0; q < qty; q++)` that creates eSIMs
NextEsimUnit(d, should) ==
  IF h[d].q + 1 < qty(d)
  THEN [h[d] EXCEPT !.pc = "esim_create", !.q = h[d].q + 1,
                    !.shouldMarkProcessed = should,
                    !.mayaResp = NoIccid, !.current = {}]
  ELSE NextItem(d, should)

\* end of the body of `for (let q = 0; q < qty; q++)` that creates top-ups
NextTopUpUnit(d, should) ==
  IF h[d].q + 1 < qty(d)
  THEN [h[d] EXCEPT !.pc = "topup_create", !.q = h[d].q + 1,
                    !.shouldMarkProcessed = should, !.alertFor = "none"]
  ELSE [h[d] EXCEPT !.pc = "topup_mail",
                    !.shouldMarkProcessed = should, !.alertFor = "none"]

Did(d, call) == [log[d] EXCEPT !.calls = @ \cup {call}]

\* getOrderProcessedFlag: processed is the stored "true"
getOrderProcessedFlagNever == [processed |-> FALSE]

getOrderProcessedFlag == [processed |-> maya_processed]

\* what arrives at POST /webhooks/order-paid: a request whose signature does
\* not verify, a verified payload without an order id, a verified order
Events == {"bad_signature", "no_id", "order"}

\* the handler up to its first await: 401 on a bad signature; on a payload
\* without an order id, 200 and nothing else
entryIgnoresId(d, event) ==
  IF event = "bad_signature" THEN [h[d] EXCEPT !.pc = "done", !.resp = 401]
  ELSE [h[d] EXCEPT !.pc = "flag"]

entry(d, event) ==
  IF event = "bad_signature" THEN [h[d] EXCEPT !.pc = "done", !.resp = 401]
  ELSE IF event = "no_id" THEN [h[d] EXCEPT !.pc = "done", !.resp = 200]
  ELSE [h[d] EXCEPT !.pc = "flag"]

\* verifyShopifyWebhook, then the handler reaches its first await
Receive(d) ==
  /\ UNCHANGED <<lockVars, scanVars, matchVars, pickVars>>
  /\ h[d].pc = "idle"
  /\ d = "d1" \/ h["d1"].pc # "idle"
  /\ \E event \in Events :
       /\ h' = [h EXCEPT ![d] = entry(d, event)]
       /\ log' = [log EXCEPT ![d].event = event]
  /\ UNCHANGED <<order, maya_processed, maya_iccid, maya_esims_json, maya_customer_id,
                 mayaCustomers, mayaEsims, faults, createdFor, toppedFor>>

\* IDEMPOTENCY: getOrderProcessedFlag in try/catch; a fault is logged and the
\* handler goes on
ReadFlag(d) ==
  /\ UNCHANGED <<lockVars, scanVars, matchVars, pickVars>>
  /\ h[d].pc = "flag"
  /\ \E o \in CallOutcomes :
       /\ Allowed(o)
       /\ faults' = Count(o)
       /\ log' = [log EXCEPT ![d].flagRead = o, ![d].wasProcessed = maya_processed]
       /\ h' = [h EXCEPT ![d] =
                  IF o = "ok" /\ getOrderProcessedFlag.processed
                  THEN [h[d] EXCEPT !.pc = "done", !.resp = 200]
                  ELSE [h[d] EXCEPT !.pc = IF order.customer THEN "cust_get"
                                           ELSE "cust_create"]]
  /\ UNCHANGED <<order, maya_processed, maya_iccid, maya_esims_json, maya_customer_id,
                 mayaCustomers, mayaEsims, createdFor, toppedFor>>

\* the handler if it never reused a stored mapping
existingTrimmedNever(o) == NoCustomer

\* existingTrimmed: what the handler keeps of the mapping it read; a read
\* that throws leaves mayaCustomerId null
existingTrimmed(o) == IF o = "ok" THEN maya_customer_id ELSE NoCustomer

\* getMayaCustomerIdFromShopifyCustomer in try/catch
GetCustomerId(d) ==
  /\ UNCHANGED <<lockVars, scanVars, matchVars, pickVars>>
  /\ h[d].pc = "cust_get"
  /\ \E o \in CallOutcomes :
       /\ Allowed(o)
       /\ faults' = Count(o)
       /\ h' = [h EXCEPT ![d] =
                  IF existingTrimmed(o) # NoCustomer
                  THEN [h[d] EXCEPT !.pc = "item",
                                    !.mayaCustomerId = existingTrimmed(o)]
                  ELSE [h[d] EXCEPT !.pc = "cust_create"]]
       /\ log' = [log EXCEPT ![d] =
                    [Did(d, "getCustomerId") EXCEPT
                       !.mapped = IF o = "ok" THEN maya_customer_id ELSE NoCustomer]]
  /\ UNCHANGED <<order, maya_processed, maya_iccid, maya_esims_json, maya_customer_id,
                 mayaCustomers, mayaEsims, createdFor, toppedFor>>

\* the handler if it went on to the line items without a customer
createFailedGoesOn(d) ==
  [h[d] EXCEPT !.pc = "item", !.shouldMarkProcessed = FALSE]

\* catch of createMayaCustomer: shouldMarkProcessed = false; return 200
createFailed(d) ==
  [h[d] EXCEPT !.pc = "done", !.resp = 200, !.shouldMarkProcessed = FALSE]

\* createMayaCustomer; a failure ends the handler with 200
CreateCustomer(d) ==
  /\ UNCHANGED <<lockVars, scanVars, matchVars, pickVars>>
  /\ h[d].pc = "cust_create"
  /\ \E o \in CallOutcomes :
       /\ Allowed(o)
       /\ faults' = Count(o)
       /\ IF o = "ok"
          THEN /\ mayaCustomers' = mayaCustomers + 1
               /\ h' = [h EXCEPT ![d] =
                          [h[d] EXCEPT !.pc = IF order.customer THEN "cust_save"
                                              ELSE "item",
                                       !.mayaCustomerId = mayaCustomers + 1]]
          ELSE /\ UNCHANGED mayaCustomers
               /\ h' = [h EXCEPT ![d] = createFailed(d)]
  /\ log' = [log EXCEPT ![d] = Did(d, "createCustomer")]
  /\ UNCHANGED <<order, maya_processed, maya_iccid, maya_esims_json, maya_customer_id,
                 mayaEsims, createdFor, toppedFor>>

\* saveMayaCustomerIdToShopifyCustomer in try/catch
SaveCustomerId(d) ==
  /\ UNCHANGED <<lockVars, scanVars, matchVars, pickVars>>
  /\ h[d].pc = "cust_save"
  /\ \E o \in CallOutcomes :
       /\ Allowed(o)
       /\ faults' = Count(o)
       /\ maya_customer_id' = IF o = "ok" THEN h[d].mayaCustomerId ELSE maya_customer_id
  /\ h' = [h EXCEPT ![d].pc = "item"]
  /\ log' = [log EXCEPT ![d] = Did(d, "saveCustomerId")]
  /\ UNCHANGED <<order, maya_processed, maya_iccid, maya_esims_json,
                 mayaCustomers, mayaEsims, createdFor, toppedFor>>

\* top of the loop body: getVariantConfig and the tests on mayaPlanId and
\* productType
Item(d) ==
  /\ UNCHANGED <<lockVars, scanVars, matchVars, pickVars>>
  /\ h[d].pc = "item"
  /\ \E o \in CallOutcomes :
       /\ Allowed(o)
       /\ faults' = Count(o)
       /\ LET cfg == getVariantConfig(Items[h[d].i].variant_id) IN
          IF o = "fault" \/ cfg.mayaPlanId = "null"
          THEN /\ h' = [h EXCEPT ![d] = NextItem(d, FALSE)]
               /\ log' = [log EXCEPT ![d] =
                            [Did(d, "getVariantConfig") EXCEPT
                               !.itemFailed = TRUE,
                               !.noPlan = IF o = "ok" THEN @ \cup {h[d].i} ELSE @,
                               !.unresolved = @ \cup {h[d].i}]]
          ELSE /\ h' = [h EXCEPT ![d].pc = IF cfg.productType = "recharge"
                                           THEN "topup_fetch" ELSE "esim_create",
                                 ![d].q = 0]
               /\ log' = [log EXCEPT ![d] = Did(d, "getVariantConfig")]
  /\ UNCHANGED <<order, maya_processed, maya_iccid, maya_esims_json, maya_customer_id,
                 mayaCustomers, mayaEsims, createdFor, toppedFor>>

\* RECHARGE: getMayaCustomerDetails and the choice of `best`; the branch for
\* a missing mayaCustomerId is dead code (a failed creation has returned)
TopUpFetch(d) ==
  /\ UNCHANGED <<lockVars, scanVars, matchVars, pickVars>>
  /\ h[d].pc = "topup_fetch"
  /\ \E o \in CallOutcomes :
       /\ Allowed(o)
       /\ faults' = Count(o)
       /\ LET cfg == getVariantConfig(Items[h[d].i].variant_id)
              b == selectTarget(h[d].mayaCustomerId, cfg.mayaPlanId)
          IN
          IF o = "fault"
          THEN /\ h' = [h EXCEPT ![d].pc = "alert", ![d].alertFor = "fetch",
                                 ![d].shouldMarkProcessed = FALSE]
               /\ log' = [log EXCEPT ![d] =
                            [Did(d, "getCustomer") EXCEPT !.itemFailed = TRUE]]
          ELSE IF b = NoIccid
          THEN /\ h' = [h EXCEPT ![d].pc = "alert", ![d].alertFor = "nomatch",
                                 ![d].shouldMarkProcessed = FALSE]
               /\ log' = [log EXCEPT ![d] =
                            [Did(d, "getCustomer") EXCEPT
                               !.itemFailed = TRUE,
                               !.unmatched = @ \cup {h[d].i}]]
          ELSE /\ h' = [h EXCEPT ![d].pc = "topup_create", ![d].best = b, ![d].q = 0]
               /\ log' = [log EXCEPT ![d] =
                            [Did(d, "getCustomer") EXCEPT !.matched[h[d].i] = b]]
  /\ UNCHANGED <<order, maya_processed, maya_iccid, maya_esims_json, maya_customer_id,
                 mayaCustomers, mayaEsims, createdFor, toppedFor>>

\* sendAdminAlertEmail, awaited outside any try: an exception of the mailer
\* leaves the handler (no response, nothing after it runs)
AdminAlert(d) ==
  /\ UNCHANGED <<lockVars, scanVars, matchVars, pickVars>>
  /\ h[d].pc = "alert"
  /\ \E o \in MailOutcomes :
       /\ UNCHANGED faults
       /\ h' = [h EXCEPT ![d] =
                  IF o = "throw" THEN [h[d] EXCEPT !.pc = "crashed"]
                  ELSE IF h[d].alertFor = "unit" THEN NextTopUpUnit(d, FALSE)
                  ELSE NextItem(d, FALSE)]
  /\ log' = [log EXCEPT ![d] = [Did(d, "adminAlert") EXCEPT !.alerts = @ + 1]]
  /\ UNCHANGED <<order, maya_processed, maya_iccid, maya_esims_json, maya_customer_id,
                 mayaCustomers, mayaEsims, createdFor, toppedFor>>

\* createMayaTopUp for one unit; a failure raises the flag and alerts
TopUpCreate(d) ==
  /\ UNCHANGED <<lockVars, scanVars, matchVars, pickVars>>
  /\ h[d].pc = "topup_create"
  /\ \E o \in CallOutcomes :
       /\ Allowed(o)
       /\ faults' = Count(o)
       /\ IF o = "ok"
          THEN /\ toppedFor' = [toppedFor EXCEPT ![h[d].i] = @ + 1]
               /\ h' = [h EXCEPT ![d] = NextTopUpUnit(d, h[d].shouldMarkProcessed)]
               /\ log' = [log EXCEPT ![d] =
                            [Did(d, "createTopUp") EXCEPT
                               !.topUps[h[d].i] = @ + 1,
                               !.topUpOn = @ \cup {h[d].best},
                               !.topUpOk = @ \cup {h[d].i}]]
          ELSE /\ UNCHANGED toppedFor
               /\ h' = [h EXCEPT ![d].pc = "alert", ![d].alertFor = "unit",
                                 ![d].shouldMarkProcessed = FALSE]
               /\ log' = [log EXCEPT ![d] =
                            [Did(d, "createTopUp") EXCEPT
                               !.itemFailed = TRUE,
                               !.topUps[h[d].i] = @ + 1,
                               !.topUpOn = @ \cup {h[d].best},
                               !.unitFails = @ + 1]]
  /\ UNCHANGED <<order, maya_processed, maya_iccid, maya_esims_json, maya_customer_id,
                 mayaCustomers, mayaEsims, createdFor>>

\* sendTopUpEmail in try/catch, after the units of the item (part_004 only)
TopUpMail(d) ==
  /\ UNCHANGED <<lockVars, scanVars, matchVars, pickVars>>
  /\ h[d].pc = "topup_mail"
  /\ \E o \in MailOutcomes :
       h' = [h EXCEPT ![d] = NextItem(d, h[d].shouldMarkProcessed)]
  /\ log' = [log EXCEPT ![d] = [Did(d, "topUpEmail") EXCEPT
                                  !.topUpMailed = @ \cup {h[d].i}]]
  /\ UNCHANGED <<order, maya_processed, maya_iccid, maya_esims_json, maya_customer_id,
                 mayaCustomers, mayaEsims, faults, createdFor, toppedFor>>

\* createMayaEsim for one unit
EsimCreate(d) ==
  /\ UNCHANGED <<lockVars, scanVars, matchVars, pickVars>>
  /\ h[d].pc = "esim_create"
  /\ \E o \in CallOutcomes :
       /\ Allowed(o)
       /\ faults' = Count(o)
       /\ LET cfg == getVariantConfig(Items[h[d].i].variant_id)
              iccid == Len(mayaEsims) + 1
          IN
          IF o = "ok"
          THEN /\ mayaEsims' = Append(mayaEsims,
                                      NewEsim(h[d].mayaCustomerId, cfg.mayaPlanId, iccid))
               /\ createdFor' = [createdFor EXCEPT ![h[d].i] = @ + 1]
               /\ h' = [h EXCEPT ![d].pc = "save_fields", ![d].mayaResp = iccid]
               /\ log' = [log EXCEPT ![d] =
                            [Did(d, "createAsset") EXCEPT
                               !.createdBy = @ \cup {iccid},
                               !.creates[h[d].i] = @ + 1]]
          ELSE /\ UNCHANGED <<mayaEsims, createdFor>>
               /\ h' = [h EXCEPT ![d] = NextEsimUnit(d, FALSE)]
               /\ log' = [log EXCEPT ![d] =
                            [Did(d, "createAsset") EXCEPT
                               !.itemFailed = TRUE,
                               !.creates[h[d].i] = @ + 1]]
  /\ UNCHANGED <<order, maya_processed, maya_iccid, maya_esims_json, maya_customer_id,
                 mayaCustomers, toppedFor>>

\* saveEsimToOrder: the metafieldsSet of maya_iccid / maya_esim_uid; a fault
\* or userErrors throws to the handler's catch
SaveFields(d) ==
  /\ UNCHANGED <<lockVars, scanVars, matchVars, pickVars>>
  /\ h[d].pc = "save_fields"
  /\ \E o \in CallOutcomes :
       /\ Allowed(o)
       /\ faults' = Count(o)
       /\ IF o = "ok"
          THEN /\ maya_iccid' = h[d].mayaResp
               /\ h' = [h EXCEPT ![d].pc = "append_read"]
               /\ log' = [log EXCEPT ![d] =
                            [Did(d, "saveEsimToOrder") EXCEPT
                               !.saveTried = @ \cup {h[d].mayaResp}]]
          ELSE /\ UNCHANGED maya_iccid
               /\ h' = [h EXCEPT ![d].pc = "manual_mail",
                                 ![d].shouldMarkProcessed = FALSE]
               /\ log' = [log EXCEPT ![d] =
                            [Did(d, "saveEsimToOrder") EXCEPT
                               !.itemFailed = TRUE,
                               !.saveTried = @ \cup {h[d].mayaResp}]]
  /\ UNCHANGED <<order, maya_processed, maya_esims_json, maya_customer_id,
                 mayaCustomers, mayaEsims, createdFor, toppedFor>>

\* the ICCID just saved, if the order gives it back now
Recorded(d, list, single) ==
  LET back == IF list # {} THEN list
              ELSE IF single # NoIccid THEN {single} ELSE {}
  IN IF h[d].mayaResp \in back THEN {h[d].mayaResp} ELSE {}

\* appendEsimToOrderEsimsJson: getEsimsJsonFromOrder; saveEsimToOrder catches
\* what the append throws and returns true
AppendRead(d) ==
  /\ UNCHANGED <<lockVars, scanVars, matchVars, pickVars>>
  /\ h[d].pc = "append_read"
  /\ \E o \in CallOutcomes :
       /\ Allowed(o)
       /\ faults' = Count(o)
       /\ IF o = "ok"
          THEN /\ h' = [h EXCEPT ![d].pc = "append_write",
                                 ![d].current = maya_esims_json]
               /\ UNCHANGED log
          ELSE /\ h' = [h EXCEPT ![d].pc = "esim_mail"]
               /\ log' = [log EXCEPT ![d].recordedBy =
                            @ \cup Recorded(d, maya_esims_json, maya_iccid)]
  /\ UNCHANGED <<order, maya_processed, maya_iccid, maya_esims_json, maya_customer_id,
                 mayaCustomers, mayaEsims, createdFor, toppedFor>>

\* appendEsimToOrderEsimsJson: the list with the ICCID added is written back
AppendWrite(d) ==
  /\ UNCHANGED <<lockVars, scanVars, matchVars, pickVars>>
  /\ h[d].pc = "append_write"
  /\ \E o \in CallOutcomes :
       /\ Allowed(o)
       /\ faults' = Count(o)
       /\ maya_esims_json' = IF o = "ok" THEN h[d].current \cup {h[d].mayaResp}
                             ELSE maya_esims_json
  /\ h' = [h EXCEPT ![d].pc = "esim_mail", ![d].current = {}]
  /\ log' = [log EXCEPT ![d].recordedBy =
               @ \cup Recorded(d, maya_esims_json', maya_iccid)]
  /\ UNCHANGED <<order, maya_processed, maya_iccid, maya_customer_id,
                 mayaCustomers, mayaEsims, createdFor, toppedFor>>

\* sendManualActionEmail in try/catch, after saveEsimToOrder threw (part_004 only)
ManualMail(d) ==
  /\ UNCHANGED <<lockVars, scanVars, matchVars, pickVars>>
  /\ h[d].pc = "manual_mail"
  /\ \E o \in MailOutcomes :
       h' = [h EXCEPT ![d].pc = "esim_mail"]
  /\ log' = [log EXCEPT ![d] = Did(d, "manualActionEmail")]
  /\ UNCHANGED <<order, maya_processed, maya_iccid, maya_esims_json, maya_customer_id,
                 mayaCustomers, mayaEsims, faults, createdFor, toppedFor>>

\* the handler if a failed e-mail to the buyer raised partial failure
afterEsimMailStrict(d, o) == h[d].shouldMarkProcessed /\ o = "ok"

\* the catch of sendEsimEmail only logs: shouldMarkProcessed stays as it is
afterEsimMail(d, o) == h[d].shouldMarkProcessed

\* sendEsimEmail in try/catch: the buyer's e-mail for the eSIM just created
EsimMail(d) ==
  /\ UNCHANGED <<lockVars, scanVars, matchVars, pickVars>>
  /\ h[d].pc = "esim_mail"
  /\ \E o \in MailOutcomes :
       /\ Allowed(o)
       /\ faults' = Count(o)
       /\ h' = [h EXCEPT ![d] = NextEsimUnit(d, afterEsimMail(d, o))]
       /\ log' = [log EXCEPT ![d] =
                    [Did(d, "esimEmail") EXCEPT
                       !.esimMails = @ + 1,
                       !.mailFailed = @ \/ o # "ok"]]
  /\ UNCHANGED <<order, maya_processed, maya_iccid, maya_esims_json, maya_customer_id,
                 mayaCustomers, mayaEsims, createdFor, toppedFor>>

\* a write that flips the stored flag
markOrderProcessedFlips(o) == IF o = "ok" THEN ~maya_processed ELSE maya_processed

\* markOrderProcessed: metafieldsSet of custom.maya_processed with value "true"
markOrderProcessed(o) == IF o = "ok" THEN TRUE ELSE maya_processed

\* markOrderProcessed in try/catch, then the response
MarkProcessed(d) ==
  /\ UNCHANGED <<lockVars, scanVars, matchVars, pickVars>>
  /\ h[d].pc = "mark"
  /\ \E o \in CallOutcomes :
       /\ Allowed(o)
       /\ faults' = Count(o)
       /\ maya_processed' = markOrderProcessed(o)
       /\ log' = [log EXCEPT ![d] =
                    [Did(d, "markOrderProcessed") EXCEPT !.marked = (o = "ok")]]
  /\ h' = [h EXCEPT ![d].pc = "done", ![d].resp = 200]
  /\ UNCHANGED <<order, maya_iccid, maya_esims_json, maya_customer_id,
                 mayaCustomers, mayaEsims, createdFor, toppedFor>>

Next ==
  \E d \in Deliveries :
       \/ Receive(d)
       \/ ReadFlag(d)
       \/ GetCustomerId(d)
       \/ CreateCustomer(d)
       \/ SaveCustomerId(d)
       \/ Item(d)
       \/ TopUpFetch(d)
       \/ AdminAlert(d)
       \/ TopUpCreate(d)
       \/ TopUpMail(d)
       \/ EsimCreate(d)
       \/ SaveFields(d)
       \/ AppendRead(d)
       \/ AppendWrite(d)
       \/ ManualMail(d)
       \/ EsimMail(d)
       \/ MarkProcessed(d)

Spec == Init /\ [][Next]_vars

\* the lock clients run against an order no delivery is working on
LockStart ==
  /\ LockInit
  /\ ScanQuiet
  /\ MatchIdle
  /\ PickIdle
  /\ HandlerIdle
  /\ order = [customer |-> FALSE,
              line_items |-> <<[variant_id |-> "esimA", quantity |-> 1]>>]
  /\ maya_customer_id = NoCustomer
  /\ mayaCustomers = 0
  /\ mayaEsims = << >>

LockSpec == LockStart /\ [][LockNext]_vars

\* the lock as the clients may find it on an order: free, or left held by a
\* holder that is gone, with a time of acquisition, without one, or with one
\* that cannot be parsed
LockFoundInit ==
  /\ now = 0
  /\ \/ /\ maya_processing = FALSE
        /\ maya_processing_token = NoToken
        /\ maya_processing_at = NoTime
     \/ /\ maya_processing = TRUE
        /\ maya_processing_token = ForeignToken
        /\ maya_processing_at \in {NoTime, BadTime, 0}
  /\ nextToken = 1
  /\ lpc = [c \in Clients |-> "idle"]
  /\ ltoken = [c \in Clients |-> NoToken]
  /\ lnowIso = [c \in Clients |-> NoTime]
  /\ lresult = [c \in Clients |-> "none"]
  /\ holding = [c \in Clients |-> NoToken]
  /\ heldSince = [c \in Clients |-> NoTime]
  /\ sawStale = [c \in Clients |-> FALSE]
  /\ sawOther = [c \in Clients |-> FALSE]
  /\ lwrote = [c \in Clients |-> FALSE]
  /\ ScanQuiet
  /\ MatchIdle
  /\ PickIdle
  /\ HandlerIdle
  /\ order = [customer |-> FALSE,
              line_items |-> <<[variant_id |-> "esimA", quantity |-> 1]>>]
  /\ maya_customer_id = NoCustomer
  /\ mayaCustomers = 0
  /\ mayaEsims = << >>

LockFoundSpec == LockFoundInit /\ [][LockNext]_vars

\* ------------------------------------------------------------------------
\* Usage scan: the passes of GET /cron/check-usage over one order
\* ------------------------------------------------------------------------
SAllowed(o) == o = "ok" \/ sfaults < MaxScanFaults

SCount(o) == IF o = "ok" THEN sfaults ELSE sfaults + 1

\* process.env.CRON_SECRET and req.query.token as they arrive
CronSecrets == {"", "s3cret"}

CronTokens == {"", "s3cret ", "wrong"}

\* String(x || "").trim()
trim(x) == IF x = "s3cret " THEN "s3cret" ELSE x

\* the tests of the trigger with the token looked at first
cronAuthTokenFirst(secret, token) ==
  IF trim(token) = "" \/ trim(token) # trim(secret) THEN "unauthorized"
  ELSE IF trim(secret) = "" THEN "unconfigured"
  ELSE "ok"

\* if (!secret) 500; if (!token || token !== secret) 401
cronAuth(secret, token) ==
  IF trim(secret) = "" THEN "unconfigured"
  ELSE IF trim(token) = "" \/ trim(token) # trim(secret) THEN "unauthorized"
  ELSE "ok"

EsimOutcomes == {"ok", "fault", "none"}

\* `continue` / end of the body of `for (const e of esims)`, then the response
NextAsset(p) ==
  IF s[p].a + 1 <= MaxAssets
  THEN [s[p] EXCEPT !.pc = "esim", !.a = s[p].a + 1,
                    !.flagSent = FALSE, !.current = {}]
  ELSE [s[p] EXCEPT !.pc = "done", !.resp = 200, !.count = OrdersFound,
                    !.flagSent = FALSE, !.current = {}]

Noted(p, o) == [slog[p] EXCEPT !.clean = @ /\ (o = "ok")]

\* a lookup of the ICCID failed and the whole pass is given up
skipAssetEndsPass(p) == [s[p] EXCEPT !.pc = "done", !.resp = 500, !.error = TRUE]

\* `continue` in the catch of a lookup, and after `if (!esim)`
skipAsset(p) == NextAsset(p)

ScanKey(p) == usageAlertKey(threshold, s[p].a)

\* the pass has been triggered and has not responded yet
Running(p) == s[p].pc \notin {"idle", "done"}

\* the tests on CRON_SECRET and on the token of the request
Trigger(p) ==
  /\ UNCHANGED <<lockVars, handlerVars, matchVars, pickVars>>
  /\ s[p].pc = "idle"
  /\ p = "p1" \/ s["p1"].pc # "idle"
  /\ \E secret \in CronSecrets, token \in CronTokens :
       LET auth == cronAuth(secret, token) IN
       /\ s' = [s EXCEPT ![p] =
                  IF auth = "ok" THEN [s[p] EXCEPT !.pc = "orders"]
                  ELSE IF auth = "unauthorized"
                  THEN [s[p] EXCEPT !.pc = "done", !.resp = 401]
                  ELSE [s[p] EXCEPT !.pc = "done", !.resp = 500]]
       /\ slog' = [q \in Passes |->
                     IF q = p
                     THEN [slog[q] EXCEPT
                             !.alone = \A r \in Passes \ {p} : ~Running(r),
                             !.secret = secret, !.token = token]
                     ELSE IF Running(q) THEN [slog[q] EXCEPT !.alone = FALSE]
                     ELSE slog[q]]
  /\ UNCHANGED <<scan_email, threshold, plansOf, usage_alerts_sent,
                 alertsSent, sfaults>>

\* getOrdersWithEsims; a fault ends the pass with 500
GetOrders(p) ==
  /\ UNCHANGED <<lockVars, handlerVars, matchVars, pickVars>>
  /\ s[p].pc = "orders"
  /\ \E o \in CallOutcomes :
       /\ SAllowed(o)
       /\ sfaults' = SCount(o)
       /\ slog' = [slog EXCEPT ![p] = [Noted(p, o) EXCEPT
                                        !.orders = o,
                                        !.email = (o = "ok" /\ scan_email)]]
       /\ s' = [s EXCEPT ![p] =
                  IF o = "ok" THEN [s[p] EXCEPT !.pc = "esim", !.a = 1]
                  ELSE [s[p] EXCEPT !.pc = "done", !.resp = 500, !.error = TRUE]]
  /\ UNCHANGED <<scan_email, threshold, plansOf, usage_alerts_sent, alertsSent>>

\* getMayaEsimDetailsByIccid: a fault or no eSIM skips the ICCID
EsimLookup(p) ==
  /\ UNCHANGED <<lockVars, handlerVars, matchVars, pickVars>>
  /\ s[p].pc = "esim"
  /\ \E o \in EsimOutcomes :
       /\ SAllowed(o)
       /\ sfaults' = SCount(o)
       /\ slog' = [slog EXCEPT ![p] =
                     [Noted(p, o) EXCEPT
                        !.looked = @ \cup {s[p].a},
                        !.failedAt = IF o = "ok" THEN @ ELSE @ \cup {s[p].a}]]
       /\ s' = [s EXCEPT ![p] =
                  IF o = "ok" THEN [s[p] EXCEPT !.pc = "plans"] ELSE skipAsset(p)]
  /\ UNCHANGED <<scan_email, threshold, plansOf, usage_alerts_sent, alertsSent>>

\* getMayaEsimPlansByIccid, pickCurrentPlan, the tests on the plan and the
\* comparison of percentUsed with the threshold
PlansLookup(p) ==
  /\ UNCHANGED <<lockVars, handlerVars, matchVars, pickVars>>
  /\ s[p].pc = "plans"
  /\ \E o \in CallOutcomes :
       /\ SAllowed(o)
       /\ sfaults' = SCount(o)
       /\ slog' = [slog EXCEPT ![p] =
                     [Noted(p, o) EXCEPT
                        !.failedAt = IF o = "ok" THEN @ ELSE @ \cup {s[p].a},
                        !.checked = IF o = "ok" /\ usageDecision(plansOf[s[p].a]) = "check"
                                    THEN @ \cup {s[p].a} ELSE @]]
       /\ s' = [s EXCEPT ![p] =
                  IF o # "ok" THEN skipAsset(p)
                  ELSE IF usageDecision(plansOf[s[p].a]) = "check"
                  THEN [s[p] EXCEPT !.pc = "flag"]
                  ELSE NextAsset(p)]
  /\ UNCHANGED <<scan_email, threshold, plansOf, usage_alerts_sent, alertsSent>>

\* `if (flag.sent)` and `if (!email)`: no alert is attempted
skipAlertIgnoresEmail(sent, email) == sent

skipAlert(sent, email) == sent \/ ~email

\* getUsageAlertFlag in try/catch (a fault leaves flag = {sent: false}), then
\* the tests on flag.sent and on email
FlagRead(p) ==
  /\ UNCHANGED <<lockVars, handlerVars, matchVars, pickVars>>
  /\ s[p].pc = "flag"
  /\ \E o \in CallOutcomes :
       /\ SAllowed(o)
       /\ sfaults' = SCount(o)
       /\ slog' = [slog EXCEPT ![p] = Noted(p, o)]
       /\ LET sent == o = "ok" /\ ScanKey(p) \in usage_alerts_sent IN
          s' = [s EXCEPT ![p] =
                  IF skipAlert(sent, scan_email) THEN NextAsset(p)
                  ELSE [s[p] EXCEPT !.pc = "send"]]
  /\ UNCHANGED <<scan_email, threshold, plansOf, usage_alerts_sent, alertsSent>>

\* sendUsageAlertEmail: an error of the mailer returns false and the pass goes
\* on to markUsageAlertSent; an exception is caught by the pass
SendAlert(p) ==
  /\ UNCHANGED <<lockVars, handlerVars, matchVars, pickVars>>
  /\ s[p].pc = "send"
  /\ \E o \in MailOutcomes :
       /\ SAllowed(o)
       /\ sfaults' = SCount(o)
       /\ slog' = [slog EXCEPT ![p] =
                     [Noted(p, o) EXCEPT
                        !.triedFor = @ \cup {s[p].a},
                        !.sentFor = IF o = "ok" THEN @ \cup {s[p].a} ELSE @]]
       /\ alertsSent' = IF o = "ok" THEN [alertsSent EXCEPT ![s[p].a] = @ + 1]
                        ELSE alertsSent
       /\ s' = [s EXCEPT ![p] =
                  IF o = "throw" THEN NextAsset(p)
                  ELSE [s[p] EXCEPT !.pc = "mark_flag"]]
  /\ UNCHANGED <<scan_email, threshold, plansOf, usage_alerts_sent>>

\* markUsageAlertSent: its getUsageAlertFlag; a fault falls to current = []
MarkFlag(p) ==
  /\ UNCHANGED <<lockVars, handlerVars, matchVars, pickVars>>
  /\ s[p].pc = "mark_flag"
  /\ \E o \in CallOutcomes :
       /\ SAllowed(o)
       /\ sfaults' = SCount(o)
       /\ slog' = [slog EXCEPT ![p] = Noted(p, o)]
       /\ s' = [s EXCEPT ![p] =
                  IF o = "ok"
                  THEN [s[p] EXCEPT !.pc = "mark_list",
                                    !.flagSent = ScanKey(p) \in usage_alerts_sent]
                  ELSE [s[p] EXCEPT !.pc = "mark_write", !.current = {}]]
  /\ UNCHANGED <<scan_email, threshold, plansOf, usage_alerts_sent, alertsSent>>

\* markUsageAlertSent: the re-read of the whole list, `if (flag.sent) return`
MarkList(p) ==
  /\ UNCHANGED <<lockVars, handlerVars, matchVars, pickVars>>
  /\ s[p].pc = "mark_list"
  /\ \E o \in CallOutcomes :
       /\ SAllowed(o)
       /\ sfaults' = SCount(o)
       /\ slog' = [slog EXCEPT ![p] = Noted(p, o)]
       /\ s' = [s EXCEPT ![p] =
                  IF o = "fault" THEN [s[p] EXCEPT !.pc = "mark_write", !.current = {}]
                  ELSE IF s[p].flagSent THEN NextAsset(p)
                  ELSE [s[p] EXCEPT !.pc = "mark_write",
                                    !.current = usage_alerts_sent]]
  /\ UNCHANGED <<scan_email, threshold, plansOf, usage_alerts_sent, alertsSent>>

\* markUsageAlertSent: the list with the key added is written back; a fault
\* or userErrors throws to the catch of the pass
MarkWrite(p) ==
  /\ UNCHANGED <<lockVars, handlerVars, matchVars, pickVars>>
  /\ s[p].pc = "mark_write"
  /\ \E o \in WriteOutcomes :
       /\ SAllowed(o)
       /\ sfaults' = SCount(o)
       /\ usage_alerts_sent' = IF o = "ok" THEN s[p].current \cup {ScanKey(p)}
                               ELSE usage_alerts_sent
       /\ slog' = [slog EXCEPT ![p] =
                     [Noted(p, o) EXCEPT
                        !.markedFor = IF o = "ok" THEN @ \cup {s[p].a} ELSE @]]
  /\ s' = [s EXCEPT ![p] = NextAsset(p)]
  /\ UNCHANGED <<scan_email, threshold, plansOf, alertsSent>>

\* between two passes the order, which had no e-mail address, is given one
EmailAdded ==
  /\ UNCHANGED <<lockVars, handlerVars, matchVars, pickVars>>
  /\ ~scan_email
  /\ \A p \in Passes : ~Running(p)
  /\ scan_email' = TRUE
  /\ UNCHANGED <<threshold, plansOf, usage_alerts_sent, s, slog, alertsSent, sfaults>>

ScanNext ==
  \/ \E p \in Passes :
       \/ Trigger(p)
       \/ GetOrders(p)
       \/ EsimLookup(p)
       \/ PlansLookup(p)
       \/ FlagRead(p)
       \/ SendAlert(p)
       \/ MarkFlag(p)
       \/ MarkList(p)
       \/ MarkWrite(p)
  \/ EmailAdded

\* an order with MaxAssets eSIMs recorded on it; no delivery, no lock client
ScanInit ==
  /\ LockInit
  /\ HandlerIdle
  /\ MatchIdle
  /\ PickIdle
  /\ order = [customer |-> FALSE,
              line_items |-> <<[variant_id |-> "esimA", quantity |-> 1]>>]
  /\ maya_customer_id = NoCustomer
  /\ mayaCustomers = 0
  /\ mayaEsims = << >>
  /\ ScanIdle
  /\ scan_email \in BOOLEAN
  /\ threshold \in Thresholds
  /\ plansOf \in [Assets -> {<<pl>> : pl \in ScanPlans} \cup {<< >>}]
  /\ plansOf[2] \in {<< >>, <<SpentPlan>>}

ScanSpec == ScanInit /\ [][ScanNext]_vars

\* ------------------------------------------------------------------------
\* Top-up target selection on its own: the matcher run on one customer
\* ------------------------------------------------------------------------
\* runs of the matcher on one customer
MaxRuns == 3

Esim(i, st, sv, pls) ==
  [customer |-> 1, iccid |-> i, state |-> st, service_status |-> sv, plans |-> pls]

Plan(i, t, bytes, act, start) ==
  [id |-> i, planTypeId |-> t, data_bytes_remaining |-> bytes, activated |-> act,
   start_time |-> start]

\* plans of the wanted type: remaining bytes, activation, start time
LivePlans ==
  {Plan(1, "planA", bytes, act, start) :
     bytes \in {50, 100, NotFinite}, act \in BOOLEAN, start \in {1, 2, NotFinite}}

\* three eSIMs in service, one plan of the wanted type each
OrderingInputs ==
  {<<Esim(1, "released", "active", <<p1>>), Esim(2, "released", "active", <<p2>>),
     Esim(3, "active", "active", <<p3>>)>> :
     p1 \in LivePlans, p2 \in LivePlans, p3 \in LivePlans}

\* an eSIM of any state and service status holding the plan with the fewest
\* bytes, next to an eSIM in service; plan-type ids in every spelling
FilteringInputs ==
  {<<Esim(1, st, sv, <<Plan(1, t1, 50, TRUE, 1)>>),
     Esim(2, "released", "active", <<Plan(1, t2, 100, TRUE, 2)>>)>> :
     st \in StatusSpellings, sv \in StatusSpellings,
     t1 \in IdSpellings, t2 \in IdSpellings}

\* an eSIM with two plans next to an eSIM with one
TwoPlanInputs ==
  {<<Esim(1, "active", "active",
          <<Plan(1, t1, b1, a1, 1), Plan(2, t2, b2, a2, 2)>>),
     Esim(2, "active", "active", <<Plan(1, "planA", b3, a3, 1)>>)>> :
     t1 \in {"planA", "planB"}, t2 \in {"planA", "planB"},
     b1 \in {50, 100}, b2 \in {50, 100}, b3 \in {50, 100},
     a1 \in BOOLEAN, a2 \in BOOLEAN, a3 \in BOOLEAN}

\* swap the entries k and k + 1 of a list
Swap(list, k) ==
  [j \in 1..Len(list) |->
     IF j = k THEN list[k + 1] ELSE IF j = k + 1 THEN list[k] ELSE list[j]]

\* the top-up branch runs the matcher on what the provider lists
Match ==
  /\ UNCHANGED <<lockVars, handlerVars, scanVars, pickVars>>
  /\ m_runs < MaxRuns
  /\ m_best' = pickBest(m_esims, m_mayaPlanId)
  /\ m_runs' = m_runs + 1
  /\ UNCHANGED <<m_esims, m_mayaPlanId>>

\* the provider lists the same eSIMs in another order
RelistEsims ==
  /\ UNCHANGED <<lockVars, handlerVars, scanVars, pickVars>>
  /\ \E k \in 1..(Len(m_esims) - 1) : m_esims' = Swap(m_esims, k)
  /\ UNCHANGED <<m_mayaPlanId, m_best, m_runs>>

\* the provider lists the plans of an eSIM in another order
RelistPlans ==
  /\ UNCHANGED <<lockVars, handlerVars, scanVars, pickVars>>
  /\ \E k \in 1..Len(m_esims) :
       /\ Len(m_esims[k].plans) = 2
       /\ m_esims' = [m_esims EXCEPT ![k].plans = Swap(@, 1)]
  /\ UNCHANGED <<m_mayaPlanId, m_best, m_runs>>

MatchNext ==
  \/ Match
  \/ RelistEsims
  \/ RelistPlans

\* one customer, no delivery, no lock client, no scan
MatchInit ==
  /\ LockInit
  /\ ScanQuiet
  /\ HandlerIdle
  /\ order = [customer |-> FALSE,
              line_items |-> <<[variant_id |-> "esimA", quantity |-> 1]>>]
  /\ maya_customer_id = NoCustomer
  /\ mayaCustomers = 0
  /\ mayaEsims = << >>
  /\ PickIdle
  /\ m_best = NoBest
  /\ m_runs = 0
  /\ \/ m_esims \in OrderingInputs /\ m_mayaPlanId = "planA"
     \/ m_esims \in FilteringInputs /\ m_mayaPlanId \in {"planA", "PLANA", "planB"}
     \/ m_esims \in TwoPlanInputs /\ m_mayaPlanId = "planA"

MatchSpec == MatchInit /\ [][MatchNext]_vars

\* ------------------------------------------------------------------------
\* Current-plan selection on its own: pickCurrentPlan run on one plan list
\* ------------------------------------------------------------------------
\* plans in the list of one eSIM
MaxPlans == 2

\* plans that differ in what the selection looks at
PickPlans ==
  [quota : {8}, remaining : {0, 3}, activated : BOOLEAN,
   net : {"ACTIVE", "ENABLED", "NOT_ACTIVE"}, start : {1, 2}]

RECURSIVE PlanLists(_)
\* the plan lists of length n
PlanLists(n) ==
  IF n = 0 THEN {<< >>}
  ELSE {Append(l, pl) : l \in PlanLists(n - 1), pl \in PickPlans}

\* const activePlan = pickCurrentPlan(plans)
PickCurrent ==
  /\ UNCHANGED <<lockVars, handlerVars, scanVars, matchVars>>
  /\ c_runs = 0
  /\ c_current' = pickCurrentPlan(c_plans)
  /\ c_runs' = 1
  /\ UNCHANGED c_plans

PickNext == PickCurrent

PickInit ==
  /\ LockInit
  /\ ScanQuiet
  /\ MatchIdle
  /\ HandlerIdle
  /\ order = [customer |-> FALSE,
              line_items |-> <<[variant_id |-> "esimA", quantity |-> 1]>>]
  /\ maya_customer_id = NoCustomer
  /\ mayaCustomers = 0
  /\ mayaEsims = << >>
  /\ c_plans \in UNION {PlanLists(n) : n \in 0..MaxPlans}
  /\ c_current = NoPlan
  /\ c_runs = 0

PickSpec == PickInit /\ [][PickNext]_vars

\* ------------------------------------------------------------------------
\* Properties of the processing lock (checked under LockSpec)
\* ------------------------------------------------------------------------
\* client c has a confirmed acquisition (tryAcquire returned acquired=true and
\* c has not called release yet) that the TTL has not yet made stale
Holds(c) ==
  /\ holding[c] # NoToken
  /\ now - heldSince[c] <= LOCK_TTL_MIN

\* C1: two tryAcquire calls that both read the lock as not held (or stale)
\* never both return acquired=true: at no time do two callers both hold a
\* confirmed, not yet stale acquisition of the order's lock.
C1_MutualExclusion ==
  \A a \in Clients : \A b \in Clients \ {a} : ~(Holds(a) /\ Holds(b))

\* C8: a tryAcquire call that read a held lock older than the TTL, that no
\* other acquire call overlapped and whose three store calls succeeded,
\* returns acquired=true, and the stored lock then carries its token and its
\* new acquired-at timestamp.
C8_StaleTakeover ==
  [][\A c \in Clients :
       (/\ TryAcquireVerify(c)
        /\ sawStale[c] /\ ~sawOther[c] /\ lwrote[c]
        /\ lresult'[c] # "threw")
       => /\ lresult'[c] = "acquired"
          /\ maya_processing'
          /\ maya_processing_token' = ltoken[c]
          /\ maya_processing_at' = lnowIso[c]]_vars

\* C10: release(orderId, token) goes on to clear the lock only when its read
\* shows the lock held with the caller's token; when the lock is not held it
\* returns not_locked, when it carries another token it returns
\* token_mismatch, and in both cases it writes nothing; the clearing write
\* sets held=false and the token empty, returns released=true and never
\* touches the acquired-at timestamp.
C10_ReleaseContract ==
  [][\A c \in Clients :
       /\ ReleaseRead(c) =>
            \/ lresult'[c] = "threw" /\ lpc'[c] = "idle"
            \/ /\ ~maya_processing
               /\ lresult'[c] = "not_locked" /\ lpc'[c] = "idle"
            \/ /\ maya_processing /\ maya_processing_token # holding[c]
               /\ lresult'[c] = "token_mismatch" /\ lpc'[c] = "idle"
            \/ /\ maya_processing /\ maya_processing_token = holding[c]
               /\ lpc'[c] = "rel_write" /\ ltoken'[c] = holding[c]
       /\ ReleaseRead(c) =>
            UNCHANGED <<maya_processing, maya_processing_token, maya_processing_at>>
       /\ ReleaseWrite(c) =>
            /\ maya_processing_at' = maya_processing_at
            /\ lresult'[c] = "released" /\ lwrote'[c] =>
                 ~maya_processing' /\ maya_processing_token' = NoToken
            /\ lresult'[c] # "released" =>
                 UNCHANGED <<maya_processing, maya_processing_token>>]_vars

\* a release by a former holder was refused with token_mismatch while the lock
\* is held by the caller that took it over
C10_Witness ==
  \E c \in Clients : \E o \in Clients \ {c} :
    /\ lresult[c] = "token_mismatch"
    /\ maya_processing /\ maya_processing_token = holding[o]
    /\ lresult[o] = "acquired"

\* C11: a release by a former holder never clears the lock of a caller that
\* took the stale lock over: while that caller holds its acquisition, the
\* release write of another caller leaves the stored lock held with its token.
C11_ReleaseKeepsNewHolder ==
  [][\A c \in Clients : \A x \in Clients \ {c} :
       (/\ ReleaseWrite(c)
        /\ holding[x] # NoToken
        /\ sawStale[x]
        /\ ~sawOther[x]
        /\ maya_processing
        /\ maya_processing_token = holding[x])
         => (maya_processing' /\ maya_processing_token' = holding[x])]_vars

\* C12: a lock write that faults or is rejected never ends in acquired=true
\* or released=true: acquired=true means the re-read showed the caller's
\* token, released=true means the stored lock is no longer held with the
\* caller's token.
C12_UnconfirmedWriteFails ==
  [][\A c \in Clients :
       /\ (TryAcquireVerify(c) /\ lresult'[c] = "acquired")
            => (lwrote[c] /\ maya_processing /\ maya_processing_token = ltoken[c])
       /\ (ReleaseWrite(c) /\ lresult'[c] = "released")
            => ~(maya_processing' /\ maya_processing_token' = ltoken[c])]_vars

\* ------------------------------------------------------------------------
\* Properties of top-up target selection (checked under MatchSpec)
\* ------------------------------------------------------------------------
\* a state or service status that says terminated or cancelled
Ended(x) == x \in {"Terminated", "terminated", "cancelled", "CANCELED"}

\* plan-type ids that are equal once case and surrounding blanks are ignored
SameId(x, y) ==
  \/ {x, y} \subseteq {"planA", "PLANA", " PLANA "}
  \/ {x, y} \subseteq {"planB"}

\* every plan the provider lists, as <<position of the eSIM, position of the plan>>
PlanSlots ==
  {kj \in (1..Len(m_esims)) \X (1..2) : kj[2] <= Len(m_esims[kj[1]].plans)}

EsimAt(kj) == m_esims[kj[1]]

PlanAt(kj) == m_esims[kj[1]].plans[kj[2]]

\* the plans the selection has to choose from: on an eSIM that is neither
\* terminated nor cancelled, and of the wanted plan type
Qualified ==
  {kj \in PlanSlots :
     /\ ~Ended(EsimAt(kj).state)
     /\ ~Ended(EsimAt(kj).service_status)
     /\ SameId(PlanAt(kj).planTypeId, m_mayaPlanId)}

\* remaining bytes and start time that are unknown count as larger than any value
Below(x, y) == x # NotFinite /\ (y = NotFinite \/ x < y)

\* plan p comes strictly before plan q: fewer remaining bytes; then activated
\* before not activated; then the earlier start time
LexLess(p, q) ==
  \/ Below(p.data_bytes_remaining, q.data_bytes_remaining)
  \/ /\ p.data_bytes_remaining = q.data_bytes_remaining
     /\ \/ p.activated /\ ~q.activated
        \/ /\ p.activated = q.activated
           /\ Below(p.start_time, q.start_time)

\* the plan slot that a result of the matcher names
IsWinner(kj, b) == EsimAt(kj).iccid = b.iccid /\ PlanAt(kj).id = b.planId

\* the result b is a plan to choose from that no other such plan comes before
Minimal(b) ==
  IF Qualified = {} THEN b.iccid = NoIccid
  ELSE \E w \in Qualified :
         /\ IsWinner(w, b)
         /\ \A q \in Qualified : ~LexLess(PlanAt(q), PlanAt(w))

\* two results agree on remaining bytes, activation and start time
SameKeys(b1, b2) ==
  /\ (b1.iccid = NoIccid) = (b2.iccid = NoIccid)
  /\ b1.bytesRemaining = b2.bytesRemaining
  /\ b1.activated = b2.activated
  /\ b1.startTime = b2.startTime

\* C16 as stated: every run of the selection returns a plan that is minimal
\* under (remaining bytes ascending, activated first, start time ascending),
\* and a later run on the same eSIMs and plans, listed in the same or in any
\* other order, returns the same eSIM and plan.
C16_SameWinnerInAnyOrder ==
  [][Match => /\ Minimal(m_best')
              /\ m_runs > 0 =>
                   (m_best'.iccid = m_best.iccid /\ m_best'.planId = m_best.planId)]_vars

\* C16: every run of the selection returns a plan that is minimal under
\* (remaining bytes ascending, activated first, start time ascending); a later
\* run on the same eSIMs and plans, in whatever order they are listed, returns
\* a plan with the same remaining bytes, activation and start time, and the
\* same eSIM and plan when the listing has not changed or when no other plan
\* has the same three values.
C16_MinimalWinner ==
  [][Match => /\ Minimal(m_best')
              /\ m_runs > 0 => SameKeys(m_best', m_best)
              /\ (/\ m_runs > 0
                  /\ \/ m_best = pickBest(m_esims, m_mayaPlanId)
                     \/ \A q \in Qualified :
                          \A w \in Qualified :
                            (IsWinner(w, m_best) /\ q # w)
                              => LexLess(PlanAt(w), PlanAt(q)))
                   => (m_best'.iccid = m_best.iccid /\ m_best'.planId = m_best.planId)]_vars

\* the selection has run twice, the eSIMs are listed in another order than at
\* first, and activation decided between two plans with the same bytes
C16_Witness ==
  /\ m_runs >= 2
  /\ m_esims[1].iccid # 1
  /\ m_best.iccid # NoIccid
  /\ m_best.activated
  /\ \E q \in Qualified :
       /\ ~IsWinner(q, m_best)
       /\ toInt_(PlanAt(q).data_bytes_remaining) = m_best.bytesRemaining
       /\ ~PlanAt(q).activated
  /\ \E q \in Qualified : toInt_(PlanAt(q).data_bytes_remaining) > m_best.bytesRemaining

\* C17: the plan the selection returns is on an eSIM whose state and service
\* status say neither terminated nor cancelled, and its plan-type id equals the
\* wanted one once case and surrounding blanks are ignored; and every plan
\* that meets both conditions takes part: when there is one the selection
\* returns a plan, and none of them comes before the one returned.
C17_OnlyLiveMatchingPlans ==
  [][Match =>
       /\ m_best'.iccid # NoIccid =>
            \E w \in PlanSlots :
              /\ IsWinner(w, m_best')
              /\ ~Ended(EsimAt(w).state)
              /\ ~Ended(EsimAt(w).service_status)
              /\ SameId(PlanAt(w).planTypeId, m_mayaPlanId)
              /\ SameId(m_best'.planTypeId, m_mayaPlanId)
       /\ \A q \in Qualified :
            /\ m_best'.iccid # NoIccid
            /\ \A w \in PlanSlots :
                 IsWinner(w, m_best') => ~LexLess(PlanAt(q), PlanAt(w))]_vars

\* the selection passed over the plan with the fewest bytes because its eSIM
\* is terminated or cancelled, and returned a plan whose plan-type id is
\* spelled otherwise than the wanted one
C17_Witness ==
  /\ m_runs > 0
  /\ m_best.iccid = 2
  /\ m_best.planTypeId # m_mayaPlanId
  /\ \E k \in 1..Len(m_esims) :
       /\ m_esims[k].iccid = 1
       /\ Ended(m_esims[k].state) \/ Ended(m_esims[k].service_status)
       /\ SameId(m_esims[k].plans[1].planTypeId, m_mayaPlanId)
       /\ m_esims[k].plans[1].data_bytes_remaining < m_best.bytesRemaining

\* ------------------------------------------------------------------------
\* Properties of the usage scan (checked under ScanSpec)
\* ------------------------------------------------------------------------
\* C13: over the passes of one threshold on one (order, ICCID) whose usage
\* stays at or above the threshold, one alert is sent in all: a pass that
\* runs alone sends the alert of an ICCID only if none was sent before and
\* its key is not recorded on the order.
C13_AlertOnce ==
  [][\A p \in Passes :
       (SendAlert(p) /\ slog[p].alone)
         => /\ alertsSent[s[p].a] = 0
            /\ ScanKey(p) \notin usage_alerts_sent]_vars

\* C14: the keys stored on the order only grow: whatever its preliminary
\* read gave, a markUsageAlertSent call of a pass that runs alone leaves every
\* key stored before it stored.
C14_KeysOnlyGrow ==
  [][\A p \in Passes :
       (MarkWrite(p) /\ slog[p].alone)
         => usage_alerts_sent \subseteq usage_alerts_sent']_vars

\* n is (quota - remaining) / quota * 100 rounded to the nearest whole number
IsRounded(n, quota, remaining) ==
  /\ 2 * quota * n - quota <= 200 * (quota - remaining)
  /\ 200 * (quota - remaining) < 2 * quota * n + quota

CurrentPlan(a) == pickCurrentPlan(plansOf[a])

GoodQuota(a) ==
  /\ plansOf[a] # << >>
  /\ IsFinite(CurrentPlan(a).quota)
  /\ CurrentPlan(a).quota > 0

\* the alert of ICCID a is due by the usage of its current plan alone
OverThreshold(a) ==
  /\ GoodQuota(a)
  /\ \E n \in {percentUsed(CurrentPlan(a).quota, CurrentPlan(a).remaining)} :
       /\ IsRounded(n, CurrentPlan(a).quota, CurrentPlan(a).remaining)
       /\ n >= threshold

\* ... and its current plan is activated and active on the network
Due(a) ==
  /\ OverThreshold(a)
  /\ CurrentPlan(a).activated
  /\ CurrentPlan(a).net \in {"ACTIVE", "ENABLED"}

productType(k) == getVariantConfig(Items[k].variant_id).productType

Marks(d) == "markOrderProcessed" \in log[d].calls

\* C2: over any sequence or interleaving of deliveries of one order, the
\* assets created for a line item never exceed its quantity, and neither do
\* the top-ups created for it.
C2_AtMostOnce ==
  \A k \in 1..Len(Items) :
    /\ createdFor[k] <= Items[k].quantity
    /\ toppedFor[k] <= Items[k].quantity

\* C3: a delivery whose flag read succeeds and finds the order processed
\* makes no provider call, writes nothing to the order or the customer, sends
\* no notification, and responds 200.
C3_ProcessedSkips ==
  \A d \in Deliveries :
    (log[d].flagRead = "ok" /\ log[d].wasProcessed)
      => /\ log[d].calls = {}
         /\ log[d].createdBy = {}
         /\ log[d].alerts = 0
         /\ h[d].pc = "done"
         /\ h[d].resp = 200

C3_Witness ==
  \E d \in Deliveries :
    /\ log[d].flagRead = "ok"
    /\ log[d].wasProcessed
    /\ h[d].resp = 200
    /\ createdFor[1] > 0

\* C4: whatever the outcome of the store calls, a delivery of an order whose
\* stored flag was true when the delivery read it creates no asset and no
\* top-up.
C4_ProcessedNeverProvisions ==
  \A d \in Deliveries :
    log[d].wasProcessed
      => /\ "createAsset" \notin log[d].calls
         /\ "createTopUp" \notin log[d].calls

\* C5: a delivery in which a line item failed (variant fault, no plan id,
\* unmatched top-up, provider fault, or a created asset the order does not
\* give back once saveEsimToOrder is over) does not write the flag.
C5_FailedItemNotMarked ==
  \A d \in Deliveries :
    (log[d].itemFailed \/ ~(log[d].createdBy \subseteq log[d].recordedBy))
      => ~Marks(d)

\* C6: the flag is written only when every asset the delivery created is
\* retrievable from the order's stored identifiers.
C6_MarkedOnlyIfRecorded ==
  \A d \in Deliveries :
    log[d].marked => log[d].createdBy \subseteq finalEsims

\* C7: one provision item and one top-up item (quantity 1 each, either
\* order), nothing failing but the match of the top-up: one asset is created
\* and recorded, no top-up is created, one alert goes out, the flag is not
\* written.
C7Order ==
  /\ Len(Items) = 2
  /\ \A k \in 1..2 : Items[k].quantity = 1
  /\ {productType(1), productType(2)} = {"esim", "recharge"}

C7_MixedOrder ==
  (C7Order /\ faults = 0)
    => \A d \in Deliveries :
         (h[d].pc = "done" /\ log[d].unmatched # {})
           => /\ Cardinality(log[d].createdBy) = 1
              /\ log[d].createdBy \subseteq log[d].recordedBy
              /\ "createTopUp" \notin log[d].calls
              /\ log[d].alerts = 1
              /\ ~Marks(d)
              /\ h[d].resp = 200

C7_Witness ==
  /\ C7Order
  /\ productType(1) = "recharge"
  /\ faults = 0
  /\ \E d \in Deliveries :
       /\ h[d].pc = "done"
       /\ log[d].unmatched = {1}
       /\ log[d].createdBy # {}
       /\ log[d].alerts = 1

\* C9: a delivery past the idempotency check works on the customer and the
\* line items only while the order's processing lock is held.
C9_LockHeldWhileProcessing ==
  \A d \in Deliveries :
    h[d].pc \notin {"idle", "flag", "done", "crashed"} => maya_processing

\* C18: after the selection found no plan for a top-up item, the delivery
\* makes no createTopUp call for that item, has raised partial failure, and
\* gets past the escalation notification to the next line item.
C18_UnmatchedTopUpContinues ==
  \A d \in Deliveries :
    \A k \in log[d].unmatched :
      /\ ~h[d].shouldMarkProcessed
      /\ h[d].pc = "topup_create" => h[d].i # k
      /\ ~(h[d].pc = "crashed" /\ h[d].alertFor = "nomatch")

\* C19: no fault of a store, provider or mailer call leaves the handler:
\* a delivery never ends without a response.
C19_NoFaultEscapes ==
  \A d \in Deliveries : h[d].pc # "crashed"

\* C20: a delivery that has ended answered 401 without calling the store, the
\* provider or the mailer when the signature was refused, and 200 otherwise.
C20_ResponseCodes ==
  \A d \in Deliveries :
    h[d].pc \in {"done", "crashed"} =>
      IF log[d].event = "bad_signature"
      THEN h[d].resp = 401 /\ log[d].calls = {}
      ELSE h[d].resp = 200

\* C21: a delivery whose read of the customer mapping succeeded and returned
\* a non-empty id works with that id: it never calls createCustomer, never
\* writes the mapping, and every eSIM it creates or tops up belongs to that
\* provisioning customer.
C21_ReusesStoredCustomer ==
  \A d \in Deliveries :
    log[d].mapped # NoCustomer =>
      /\ h[d].mayaCustomerId = log[d].mapped
      /\ "createCustomer" \notin log[d].calls
      /\ "saveCustomerId" \notin log[d].calls
      /\ \A c \in log[d].createdBy \cup log[d].topUpOn :
           mayaEsims[c].customer = log[d].mapped

\* a delivery that reused the stored id has created an eSIM and topped one up
C21_Witness ==
  \E d \in Deliveries :
    /\ log[d].mapped # NoCustomer
    /\ h[d].pc = "done"
    /\ log[d].createdBy # {}
    /\ log[d].topUpOn # {}

\* C22: for a commerce customer at most one provisioning customer is ever
\* created, whatever deliveries carry the customer's id; for a guest order no
\* mapping is written.
C22_OneCustomerPerBuyer ==
  /\ order.customer => mayaCustomers <= 1
  /\ ~order.customer => maya_customer_id = NoCustomer

\* C23: a delivery whose createCustomer call failed has ended with 200, has
\* looked up no variant, called neither createAsset nor createTopUp, and has
\* not written the processed flag.
C23_CustomerFailureAborts ==
  \A d \in Deliveries :
    (/\ "createCustomer" \in log[d].calls
     /\ h[d].mayaCustomerId = NoCustomer)
      => /\ h[d].pc = "done"
         /\ h[d].resp = 200
         /\ log[d].calls \cap {"getVariantConfig", "getCustomer", "createAsset",
                               "createTopUp", "markOrderProcessed"} = {}
         /\ ~log[d].marked
         /\ log[d].createdBy = {}

\* the createCustomer call of a delivery failed while the order was unprocessed
C23_Witness ==
  \E d \in Deliveries :
    /\ "createCustomer" \in log[d].calls
    /\ h[d].mayaCustomerId = NoCustomer
    /\ ~maya_processed

\* C24: a pass answers 500 without enumerating the orders when the cron
\* secret is empty, 401 without enumerating them when the token is empty or
\* is not the secret, 500 with an error in the body when enumerating the
\* orders fails, and 200 with the number of orders when it runs to the end.
C24_TriggerResponses ==
  \A p \in Passes :
    s[p].pc = "done" =>
      IF slog[p].secret = ""
      THEN s[p].resp = 500 /\ slog[p].orders = "none" /\ s[p].count = NoCount
      ELSE IF slog[p].token = "" \/ slog[p].token = "wrong"
      THEN s[p].resp = 401 /\ slog[p].orders = "none" /\ s[p].count = NoCount
      ELSE IF slog[p].orders = "fault"
      THEN s[p].resp = 500 /\ s[p].error /\ s[p].count = NoCount
      ELSE s[p].resp = 200 /\ s[p].count = OrdersFound /\ ~s[p].error
                           /\ slog[p].orders = "ok"

\* one pass sent an alert, ran to its end and answered 200 with the count;
\* the other came with a wrong token and was answered 401
C24_Witness ==
  /\ s["p1"].pc = "done" /\ s["p1"].resp = 200 /\ s["p1"].count = OrdersFound
  /\ slog["p1"].sentFor # {}
  /\ s["p2"].pc = "done" /\ s["p2"].resp = 401 /\ slog["p2"].token = "wrong"

\* C25: when a delivery has ended, an escalation notification was handed to
\* the mailer for every top-up of its that found no target and for every
\* line item of its whose variant has no plan mapping.
C25_BusinessFaultsEscalated ==
  \A d \in Deliveries :
    h[d].pc \in {"done", "crashed"} =>
      log[d].alerts >= Cardinality(log[d].unmatched) + Cardinality(log[d].noPlan)

\* C26: when a delivery has gone through all line items without raising
\* partial failure and has responded, the stored processed flag is true.
C26_CompletedMeansMarked ==
  \A d \in Deliveries :
    (/\ h[d].pc = "done"
     /\ h[d].i > Len(Items)
     /\ h[d].shouldMarkProcessed)
      => maya_processed

\* the delivery has left line item k behind, or has ended
Past(d, k) == h[d].i > k \/ h[d].pc \in {"done", "crashed"}

\* C27: for a top-up item of quantity q for which a target was chosen, the
\* delivery calls createTopUp only on chosen targets and at most q times; once
\* it has left the item behind it has made exactly q calls; a failed call has
\* raised partial failure, and every failed call has had its own escalation
\* notification before the delivery goes on.
C27_TopUpPerUnit ==
  \A d \in Deliveries :
    /\ log[d].topUpOn \subseteq {log[d].matched[k] : k \in 1..Len(Items)} \ {NoIccid}
    /\ log[d].unitFails > 0 => ~h[d].shouldMarkProcessed
    /\ h[d].pc # "alert" => log[d].alerts >= log[d].unitFails
    /\ \A k \in 1..Len(Items) :
         log[d].matched[k] # NoIccid =>
           /\ log[d].topUps[k] <= Items[k].quantity
           /\ Past(d, k) => log[d].topUps[k] = Items[k].quantity

RECURSIVE CreateCalls(_, _)
\* createAsset calls of delivery d for the line items 1..k
CreateCalls(d, k) == IF k = 0 THEN 0 ELSE log[d].creates[k] + CreateCalls(d, k - 1)

\* line item k asks for eSIMs and its plan id was resolved by delivery d,
\* which has left the item behind
ProvisionedBy(d, k) ==
  /\ h[d].i > k
  /\ productType(k) = "esim"
  /\ k \notin log[d].unresolved

\* C28: for a provision item of quantity q whose plan id was resolved, the
\* delivery makes at most q createAsset calls and, once it has left the item
\* behind, exactly q; a failed call has raised partial failure; and whenever
\* the delivery is not in the middle of recording an eSIM, saveEsimToOrder has
\* been called for every eSIM it created (so before the next unit is created).
C28_AssetPerUnit ==
  \A d \in Deliveries :
    /\ \A k \in 1..Len(Items) :
         /\ log[d].creates[k] <= Items[k].quantity
         /\ ProvisionedBy(d, k) => log[d].creates[k] = Items[k].quantity
    /\ CreateCalls(d, Len(Items)) > Cardinality(log[d].createdBy)
         => ~h[d].shouldMarkProcessed
    /\ h[d].pc # "save_fields" => log[d].createdBy \subseteq log[d].saveTried

\* a delivery made both createAsset calls of an item of quantity 2 although
\* the first one failed
C28_Witness ==
  \E d \in Deliveries :
    \E k \in 1..Len(Items) :
      /\ ProvisionedBy(d, k)
      /\ Items[k].quantity = 2
      /\ log[d].creates[k] = 2
      /\ Cardinality(log[d].createdBy) = 1
      /\ log[d].createdBy \subseteq log[d].saveTried

\* C29: a line item whose variant lookup threw or gave no plan id gets no
\* provider call (no customer lookup, no target, no createAsset, no
\* createTopUp); the step that finds it unresolvable raises partial failure
\* and takes the delivery to the next line item, or past the loop when it
\* was the last.
C29_UnresolvedItemSkipped ==
  [][\A d \in Deliveries :
       /\ \A k \in log'[d].unresolved :
            /\ log'[d].creates[k] = 0
            /\ log'[d].topUps[k] = 0
            /\ log'[d].matched[k] = NoIccid
            /\ k \notin log'[d].unmatched
       /\ (Item(d) /\ h[d].i \in log'[d].unresolved) =>
            /\ ~h'[d].shouldMarkProcessed
            /\ h'[d].i = h[d].i + 1
            /\ h'[d].pc = IF h[d].i < Len(Items) THEN "item" ELSE "done"
            /\ log'[d].calls = log[d].calls \cup {"getVariantConfig"}]_vars

\* the first line item of a delivery was unresolvable and the delivery
\* created the eSIM of the second
C29_Witness ==
  \E d \in Deliveries :
    /\ 1 \in log[d].unresolved
    /\ Len(Items) = 2
    /\ log[d].creates[2] > 0
    /\ log[d].createdBy # {}
    /\ h[d].pc = "done"

\* C30: sendEsimEmail has been attempted once for every eSIM a delivery
\* created (the eSIM being recorded excepted until its turn comes), and a
\* delivery that went through all line items with a failed buyer e-mail as
\* its only fault has written the processed flag.
C30_MailFailureHarmless ==
  \A d \in Deliveries :
    /\ log[d].esimMails =
         IF h[d].pc \in {"save_fields", "append_read", "append_write",
                         "manual_mail", "esim_mail"}
         THEN Cardinality(log[d].createdBy) - 1
         ELSE Cardinality(log[d].createdBy)
    /\ (/\ h[d].pc = "done"
        /\ h[d].i > Len(Items)
        /\ log[d].mailFailed
        /\ faults = 1
        /\ ~log[d].itemFailed)
         => log[d].marked /\ maya_processed

\* a delivery created, recorded and marked although the buyer's e-mail failed
C30_Witness ==
  \E d \in Deliveries :
    /\ h[d].pc = "done"
    /\ log[d].mailFailed
    /\ log[d].createdBy # {}
    /\ log[d].createdBy \subseteq log[d].recordedBy
    /\ log[d].marked

\* C31: a tryAcquire call that reads a lock that is held and younger than
\* the TTL ends at once without acquiring and without sending a write: it
\* returns acquired=false, reason locked (or throws when the read itself
\* failed), and the held flag, the token and the timestamp stay as they were.
C31_HeldLockRefuses ==
  [][\A c \in Clients :
       (/\ TryAcquireRead(c)
        /\ maya_processing
        /\ maya_processing_at # NoTime
        /\ now - maya_processing_at < LOCK_TTL_MIN)
         => /\ lresult'[c] \in {"locked", "threw"}
            /\ lpc'[c] = "idle"
            /\ holding'[c] = NoToken
            /\ ltoken'[c] = ltoken[c]
            /\ nextToken' = nextToken
            /\ maya_processing' = maya_processing
            /\ maya_processing_token' = maya_processing_token
            /\ maya_processing_at' = maya_processing_at]_vars

\* a client was refused with reason locked by a lock that another client has
\* held for some time, less than the TTL
C31_Witness ==
  \E c \in Clients :
    \E x \in Clients \ {c} :
      /\ lresult[c] = "locked"
      /\ lpc[c] = "idle"
      /\ maya_processing
      /\ maya_processing_token = holding[x]
      /\ holding[x] # NoToken
      /\ now - maya_processing_at > 0
      /\ now - maya_processing_at < LOCK_TTL_MIN

C33_NoResendAfterRestart ==
  \A a \in Assets :
    (a \in slog["p1"].sentFor /\ slog["p2"].alone) => a \notin slog["p2"].sentFor

\* C34: a pass whose order has no e-mail address hands nothing to the mailer
\* and records no key; as long as the order has had no address no key is
\* stored and no alert was sent; and when a pass without address has ended
\* and a later pass, in which the order has one, ends without any failed call,
\* that pass has sent the alert of every ICCID that is due.
C34_NoEmailNoAlert ==
  /\ \A p \in Passes :
       (slog[p].orders = "ok" /\ ~slog[p].email)
         => /\ slog[p].triedFor = {}
            /\ slog[p].markedFor = {}
            /\ s[p].pc \notin {"send", "mark_flag", "mark_list", "mark_write"}
  /\ ~scan_email => /\ usage_alerts_sent = {}
                    /\ \A a \in Assets : alertsSent[a] = 0
  /\ (/\ s["p1"].pc = "done" /\ slog["p1"].orders = "ok" /\ ~slog["p1"].email
      /\ s["p2"].pc = "done" /\ s["p2"].resp = 200 /\ slog["p2"].email
      /\ slog["p2"].clean)
       => \A a \in Assets : Due(a) => a \in slog["p2"].sentFor

\* the first pass found the ICCID due and the order without address, the
\* second pass found the address and sent the alert
C34_Witness ==
  /\ Due(1)
  /\ s["p1"].pc = "done" /\ s["p1"].resp = 200
  /\ slog["p1"].orders = "ok" /\ ~slog["p1"].email /\ slog["p1"].clean
  /\ slog["p2"].email
  /\ slog["p2"].sentFor = {1}
  /\ alertsSent[1] = 1

\* ------------------------------------------------------------------------
\* Properties of the current-plan selection (checked under PickSpec)
\* ------------------------------------------------------------------------
\* positions of the listed plans
PlanIdx == 1..Len(c_plans)

Activated(i) == c_plans[i].activated

OnNetwork(i) == c_plans[i].net \in {"ACTIVE", "ENABLED"}

HasBytes(i) == c_plans[i].remaining > 0

\* the first of the sets a, b, c, d that is not empty
FirstOf(a, b, c, d) == IF a # {} THEN a ELSE IF b # {} THEN b ELSE IF c # {} THEN c ELSE d

\* the pools as C35 states them
StatedPool ==
  FirstOf({i \in PlanIdx : Activated(i) /\ OnNetwork(i)},
          {i \in PlanIdx : Activated(i)},
          {i \in PlanIdx : HasBytes(i)},
          PlanIdx)

\* the pools with remaining bytes required in each of the first three
BytesPool ==
  FirstOf({i \in PlanIdx : Activated(i) /\ OnNetwork(i) /\ HasBytes(i)},
          {i \in PlanIdx : Activated(i) /\ HasBytes(i)},
          {i \in PlanIdx : HasBytes(i)},
          PlanIdx)

C36_KeyOnlyAfterDelivery ==
  /\ \A a \in Assets :
       usageAlertKey(threshold, a) \in usage_alerts_sent => alertsSent[a] > 0
  /\ \A p \in Passes : slog[p].markedFor \subseteq slog[p].sentFor

\* C37: a delivery calls sendTopUpEmail for a top-up item only when one of
\* its createTopUp calls for that item succeeded: not for an item whose
\* top-up found no target, and not for an item all of whose units failed.
C37_ConfirmationOnlyIfToppedUp ==
  \A d \in Deliveries :
    /\ log[d].topUpMailed \subseteq log[d].topUpOk
    /\ log[d].topUpMailed \cap log[d].unmatched = {}

\* C38: no step of the system takes the order's stored processed flag from
\* true back to false.
C38_ProcessedStaysTrue ==
  [][maya_processed => maya_processed']_vars

\* both deliveries have written the flag, the second one onto a flag that
\* was already true, and it is true
C38_Witness ==
  /\ maya_processed
  /\ \A d \in Deliveries : log[d].marked /\ h[d].pc = "done"

\* C39: a pass whose getOrdersWithEsims succeeded looks every ICCID of the
\* order up in turn whatever happened to the ICCIDs before it; an ICCID that
\* is due and whose own lookups succeeded goes on to the alert check; and the
\* pass ends with 200 and the count of the orders.
C39_FaultSkipsOneAsset ==
  \A p \in Passes :
    slog[p].orders = "ok" =>
      /\ s[p].pc # "done" => slog[p].looked \in {1..(s[p].a - 1), 1..s[p].a}
      /\ s[p].pc = "done" =>
           /\ slog[p].looked = Assets
           /\ s[p].resp = 200
           /\ s[p].count = OrdersFound
           /\ ~s[p].error
           /\ \A a \in Assets \ slog[p].failedAt : Due(a) => a \in slog[p].checked

\* the lookup of the first ICCID, which is due, failed; the pass went on,
\* sent the alert of the second ICCID and ended with 200
C39_Witness ==
  /\ Due(1)
  /\ s["p1"].pc = "done" /\ s["p1"].resp = 200 /\ s["p1"].count = OrdersFound
  /\ slog["p1"].failedAt = {1}
  /\ slog["p1"].triedFor = {2}
  /\ slog["p1"].sentFor = {2}
  /\ alertsSent[1] = 0

\* ------------------------------------------------------------------------
\* The lock found without a readable time (checked under LockFoundSpec)
\* ------------------------------------------------------------------------
\* C40: a tryAcquire that reads a lock whose held flag is true and whose time
\* of acquisition is missing or cannot be parsed does not answer locked: it
\* takes the lock for stale, draws a token and goes on to write it.
C40_NoTimeMeansStale ==
  [][\A c \in Clients :
       (/\ TryAcquireRead(c)
        /\ maya_processing
        /\ maya_processing_at \in {NoTime, BadTime}
        /\ lresult'[c] # "threw")
         => /\ lresult'[c] # "locked"
            /\ lpc'[c] = "acq_write"
            /\ sawStale'[c]
            /\ ltoken'[c] # NoToken]_vars

\* at time 0, when no lock can be stale by its age, a client holds the lock
\* that it found held and took for stale
C40_Witness ==
  \E c \in Clients :
    /\ now = 0
    /\ sawStale[c]
    /\ holding[c] # NoToken
    /\ maya_processing
    /\ maya_processing_token = holding[c]
    /\ lresult[c] = "acquired"

====
